---- MODULE Spec2Model ----
(***************************************************************************)
(* Model of the SQLite leaderboard store (tools/leaderboard/sqlite-store)  *)
(* and of its one-time legacy JSON migration.                              *)
(*                                                                         *)
(* Text is a sequence of character codes, compared the way SQLite's BINARY *)
(* collation compares TEXT.  Numbers are kept in halves (the value 3       *)
(* stands for 1.5) so that Math.round and String(number) do real work.     *)
(***************************************************************************)
EXTENDS Integers, Sequences, FiniteSets, TLC

\* ------------------------------------------------------------------ bounds
MaxCap == 1
MaxLegacyLen == 2
MaxSeq == 2

\* ------------------------------------------------------- program constants
MIGRATION_INCOMPLETE_FLAG == 0
MIGRATION_COMPLETE_FLAG == 1
DEFAULT_MAX_STORED_ENTRIES == 100
PipeChar == 124

\* ----------------------------------------------------------------- text
Txt(n) == <<n>>
TrueText == <<116, 114, 117, 101>>
FalseText == <<102, 97, 108, 115, 101>>
DEFAULT_EMOJI_SET_LABEL == <<85, 110, 107, 110, 111, 119, 110, 32, 80, 97, 99, 107>>

IsWhitespace(c) == c \in {9, 10, 13, 32}

RECURSIVE TrimStart(_)
TrimStart(s) ==
  IF s # <<>> /\ IsWhitespace(Head(s)) THEN TrimStart(Tail(s)) ELSE s

RECURSIVE TrimEnd(_)
TrimEnd(s) ==
  IF s # <<>> /\ IsWhitespace(s[Len(s)]) THEN TrimEnd(SubSeq(s, 1, Len(s) - 1)) ELSE s

\* A trim that removes nothing.
TrimKeepsWhitespace(s) == s

\* String.prototype.trim
Trim(s) == TrimEnd(TrimStart(s))

\* TEXT comparison of SQLite (BINARY collation): byte by byte, a proper
\* prefix sorts first.
RECURSIVE TextLess(_, _)
TextLess(a, b) ==
  IF b = <<>> THEN FALSE
  ELSE IF a = <<>> THEN TRUE
  ELSE IF Head(a) # Head(b) THEN Head(a) < Head(b)
  ELSE TextLess(Tail(a), Tail(b))

RECURSIVE Decimal(_)
Decimal(n) ==
  IF n < 10 THEN <<48 + n>> ELSE Decimal(n \div 10) \o <<48 + (n % 10)>>

\* String(number) for a number kept in halves.
NumberToString(h) ==
  LET a == IF h < 0 THEN -h ELSE h
      body == Decimal(a \div 2) \o (IF a % 2 = 1 THEN <<46, 53>> ELSE <<>>)
  IN IF h < 0 THEN <<45>> \o body ELSE body

\* Math.round on halves: ties go towards +Infinity.  The result is an integer,
\* again in halves.
MathRound(h) == 2 * ((h + 1) \div 2)

MathMax0(h) == IF h < 0 THEN 0 ELSE h

RECURSIVE Join(_, _)
\* Array.prototype.join
Join(fields, sep) ==
  IF fields = <<>> THEN <<>>
  ELSE IF Len(fields) = 1 THEN fields[1]
  ELSE fields[1] \o <<sep>> \o Join(Tail(fields), sep)

\* ------------------------------------------------------ JavaScript values
\* A JSON/JavaScript value of a payload field: t is the type tag.
JsString(s) == [t |-> "string", s |-> s, n |-> 0, b |-> FALSE]
JsNumber(h) == [t |-> "number", s |-> <<>>, n |-> h, b |-> FALSE]
JsBoolean(b) == [t |-> "boolean", s |-> <<>>, n |-> 0, b |-> b]
JsUndefined == [t |-> "undefined", s |-> <<>>, n |-> 0, b |-> FALSE]
JsNull == [t |-> "null", s |-> <<>>, n |-> 0, b |-> FALSE]
\* A value of type number that is not finite (JSON.parse makes Infinity of
\* 1e999).
JsInfinity == [t |-> "infinity", s |-> <<>>, n |-> 0, b |-> FALSE]

\* ------------------------------------------------------------- entries
NoEntry ==
  [playerName |-> <<>>, timeMs |-> 0, attempts |-> 0, difficultyId |-> <<>>,
   difficultyLabel |-> <<>>, emojiSetId |-> <<>>, emojiSetLabel |-> <<>>,
   scoreMultiplier |-> 0, scoreValue |-> 0, isAutoDemo |-> FALSE, createdAt |-> <<>>]

\* A rounding without the clamp to 0.
parseNonNegativeIntegerWithoutClamp(v) ==
  IF v.t = "number"
    THEN [finite |-> TRUE, n |-> MathRound(v.n)]
    ELSE [finite |-> FALSE, n |-> 0]

\* Number.isFinite(value) ? Math.max(0, Math.round(value)) : NaN
parseNonNegativeInteger(v) ==
  IF v.t = "number"
    THEN [finite |-> TRUE, n |-> MathMax0(MathRound(v.n))]
    ELSE [finite |-> FALSE, n |-> 0]

TrimmedString(v) == IF v.t = "string" THEN Trim(v.s) ELSE <<>>

\* parseLeaderboardPayloadEntry(payload, { allowCreatedAt }); now is the value
\* of new Date().toISOString().  ok = FALSE stands for a thrown error.
parseLeaderboardPayloadEntry(payload, allowCreatedAt, now) ==
  IF payload.kind # "object" THEN [ok |-> FALSE, entry |-> NoEntry]
  ELSE
    LET playerName == TrimmedString(payload.playerName)
        difficultyId == TrimmedString(payload.difficultyId)
        difficultyLabel == TrimmedString(payload.difficultyLabel)
        emojiSetId == TrimmedString(payload.emojiSetId)
        rawEmojiSetLabel == TrimmedString(payload.emojiSetLabel)
        emojiSetLabel ==
          IF Len(rawEmojiSetLabel) > 0 THEN rawEmojiSetLabel ELSE DEFAULT_EMOJI_SET_LABEL
        timeMs == parseNonNegativeInteger(payload.timeMs)
        attempts == parseNonNegativeInteger(payload.attempts)
        isAutoDemo == payload.isAutoDemo.t = "boolean" /\ payload.isAutoDemo.b
        scoreMultiplier ==
          IF payload.scoreMultiplier.t = "number"
            THEN MathMax0(payload.scoreMultiplier.n) ELSE 2
        scoreValue ==
          IF payload.scoreValue.t = "number"
            THEN MathMax0(MathRound(payload.scoreValue.n)) ELSE 0
        createdAt ==
          IF allowCreatedAt /\ payload.createdAt.t = "string"
             /\ Len(Trim(payload.createdAt.s)) > 0
            THEN Trim(payload.createdAt.s) ELSE now
        invalid ==
          \/ Len(playerName) = 0
          \/ Len(difficultyId) = 0
          \/ Len(difficultyLabel) = 0
          \/ Len(emojiSetId) = 0
          \/ Len(emojiSetLabel) = 0
          \/ ~timeMs.finite
          \/ ~attempts.finite
    IN IF invalid THEN [ok |-> FALSE, entry |-> NoEntry]
       ELSE [ok |-> TRUE,
             entry |->
               [playerName |-> playerName, timeMs |-> timeMs.n, attempts |-> attempts.n,
                difficultyId |-> difficultyId, difficultyLabel |-> difficultyLabel,
                emojiSetId |-> emojiSetId, emojiSetLabel |-> emojiSetLabel,
                scoreMultiplier |-> scoreMultiplier, scoreValue |-> scoreValue,
                isAutoDemo |-> isAutoDemo, createdAt |-> createdAt]]

createEntryIdentity(entry) ==
  Join(<<entry.playerName,
         NumberToString(entry.timeMs),
         NumberToString(entry.attempts),
         entry.difficultyId,
         entry.difficultyLabel,
         entry.emojiSetId,
         entry.emojiSetLabel,
         NumberToString(entry.scoreMultiplier),
         NumberToString(entry.scoreValue),
         IF entry.isAutoDemo = TRUE THEN TrueText ELSE FalseText,
         entry.createdAt>>, PipeChar)

\* ------------------------------------------------------------ table rows
\* A string bound to a TEXT parameter is written as UTF-8 and a TEXT column
\* is read back as UTF-8: a string is a sequence of UTF-16 code units, and a
\* surrogate that is not half of a pair has no UTF-8 form and comes back as
\* U+FFFD.
ReplacementChar == 65533

IsUnpairedSurrogate(t, i) ==
  \/ t[i] \in 55296..56319 /\ ~(i < Len(t) /\ t[i + 1] \in 56320..57343)
  \/ t[i] \in 56320..57343 /\ ~(i > 1 /\ t[i - 1] \in 55296..56319)

BindText(t) ==
  [i \in 1..Len(t) |-> IF IsUnpairedSurrogate(t, i) THEN ReplacementChar ELSE t[i]]

\* #insertEntry: the row stored for an entry under the next AUTOINCREMENT id.
insertEntry(entry, id) ==
  [id |-> id,
   player_name |-> BindText(entry.playerName),
   time_ms |-> entry.timeMs,
   attempts |-> entry.attempts,
   difficulty_id |-> BindText(entry.difficultyId),
   difficulty_label |-> BindText(entry.difficultyLabel),
   emoji_set_id |-> BindText(entry.emojiSetId),
   emoji_set_label |-> BindText(entry.emojiSetLabel),
   score_multiplier |-> entry.scoreMultiplier,
   score_value |-> entry.scoreValue,
   is_auto_demo |-> IF entry.isAutoDemo THEN 1 ELSE 0,
   created_at |-> BindText(entry.createdAt)]

mapRowToEntry(row) ==
  [playerName |-> row.player_name,
   timeMs |-> row.time_ms,
   attempts |-> row.attempts,
   difficultyId |-> row.difficulty_id,
   difficultyLabel |-> row.difficulty_label,
   emojiSetId |-> row.emoji_set_id,
   emojiSetLabel |-> row.emoji_set_label,
   scoreMultiplier |-> row.score_multiplier,
   scoreValue |-> row.score_value,
   isAutoDemo |-> row.is_auto_demo = 1,
   createdAt |-> row.created_at]

\* An order that puts the lower id first among rows with the same created_at.
RankedBeforeLowerIdFirst(q, r) ==
  \/ TextLess(r.created_at, q.created_at)
  \/ (q.created_at = r.created_at /\ q.id < r.id)

\* ORDER BY created_at DESC, id DESC: q comes before r.
RankedBefore(q, r) ==
  \/ TextLess(r.created_at, q.created_at)
  \/ (q.created_at = r.created_at /\ q.id > r.id)

\* ROW_NUMBER() OVER (ORDER BY created_at DESC, id DESC)
RowRank(r, rows) == 1 + Cardinality({q \in rows : RankedBefore(q, r)})

\* A trim that deletes the lowest-ranked row only, when there are more rows
\* than the cap.
trimEntriesOneRowAtATime(rows, cap) ==
  IF Cardinality(rows) > cap
    THEN {r \in rows : RowRank(r, rows) # Cardinality(rows)}
    ELSE rows

\* A trim that ranks the oldest row first and so keeps the oldest rows.
trimEntriesKeepsOldest(rows, cap) ==
  {r \in rows : ~(1 + Cardinality({q \in rows : RankedBefore(r, q)}) > cap)}

\* A trim that deletes from rank cap on: one row too many.
trimEntriesOffByOne(rows, cap) == {r \in rows : ~(RowRank(r, rows) >= cap)}

\* trimEntriesStatement.run(cap): DELETE ... WHERE rank > cap
trimEntries(rows, cap) == {r \in rows : ~(RowRank(r, rows) > cap)}


\* ------------------------------------------------------------ the database
\* The committed content of the database file: the leaderboard_scores rows,
\* the AUTOINCREMENT counter (sqlite_sequence) and the meta_value stored under
\* LEGACY_MIGRATION_STATE_KEY (present = FALSE: no such row).
NoMeta == [present |-> FALSE, value |-> <<>>]
MetaText(t) == [present |-> TRUE, value |-> t]

IsDigits(t) == t # <<>> /\ \A i \in 1..Len(t) : t[i] \in 48..57

RECURSIVE DigitsValue(_)
DigitsValue(t) ==
  IF t = <<>> THEN 0 ELSE 10 * DigitsValue(SubSeq(t, 1, Len(t) - 1)) + (t[Len(t)] - 48)

\* Number(text) for the texts a meta_value can hold; nan = TRUE stands for NaN.
\* Number("") is 0.
JsNumberOfText(t) ==
  IF Trim(t) = <<>> THEN [nan |-> FALSE, n |-> 0]
  ELSE IF IsDigits(Trim(t)) THEN [nan |-> FALSE, n |-> DigitsValue(Trim(t))]
  ELSE [nan |-> TRUE, n |-> 0]

\* A reading of the flag that always finds it complete.
getMigrationStateAlwaysComplete(meta) == MIGRATION_COMPLETE_FLAG

\* A reading of the flag that ignores the stored value.
getMigrationStateWithoutNumber(meta) == MIGRATION_INCOMPLETE_FLAG

getMigrationState(meta) ==
  LET numericValue ==
        IF ~meta.present THEN [nan |-> FALSE, n |-> MIGRATION_INCOMPLETE_FLAG]
        ELSE JsNumberOfText(meta.value)
  IN IF numericValue.nan THEN MIGRATION_INCOMPLETE_FLAG ELSE numericValue.n

\* ------------------------------------------------------- the legacy file
\* A JSON document: json is what JSON.parse makes of the text ("invalid": it
\* throws), hasEntriesArray whether the object has an array under "entries".
LegacyDoc(json, hasArray, entries) ==
  [json |-> json, hasEntriesArray |-> hasArray, entries |-> entries]

Payload(name, time, created) ==
  [kind |-> "object",
   playerName |-> name,
   timeMs |-> time,
   attempts |-> JsNumber(4),
   difficultyId |-> JsString(Txt(110)),
   difficultyLabel |-> JsString(Txt(78)),
   emojiSetId |-> JsString(Txt(115)),
   emojiSetLabel |-> JsUndefined,
   scoreMultiplier |-> JsNumber(3),
   scoreValue |-> JsNumber(5),
   isAutoDemo |-> JsBoolean(FALSE),
   createdAt |-> created]

\* "a" at "1"; " b" at "2 "; no player name at "1"; "a" without createdAt.
PayloadA == Payload(JsString(Txt(97)), JsNumber(6), JsString(Txt(49)))
PayloadB == Payload(JsString(<<32, 98>>), JsNumber(7), JsString(<<50, 32>>))
PayloadNoName == Payload(JsUndefined, JsNumber(6), JsString(Txt(49)))
PayloadNoDate == Payload(JsString(Txt(97)), JsNumber(6), JsUndefined)

\* What a legacy file's entries are drawn from, and what callers of writeEntry
\* have normalized.
PayloadPool == {PayloadA, PayloadB, PayloadNoName}
WritePayloads == {PayloadB, PayloadNoDate}

RECURSIVE SeqsUpTo(_, _)
SeqsUpTo(S, n) ==
  IF n = 0 THEN {<<>>}
  ELSE LET shorter == SeqsUpTo(S, n - 1)
       IN shorter \cup {Append(q, x) : q \in {p \in shorter : Len(p) = n - 1}, x \in S}

\* { "entries": [...] } documents.
LegacyDocs ==
  {LegacyDoc("object", TRUE, es) : es \in SeqsUpTo(PayloadPool, MaxLegacyLen)}

\* Documents of another shape: no entries array, a top-level scalar or array,
\* null, and text that is not JSON.
ShapeDocs ==
  {LegacyDoc("object", FALSE, <<>>), LegacyDoc("scalar", FALSE, <<>>),
   LegacyDoc("null", FALSE, <<>>), LegacyDoc("invalid", FALSE, <<>>)}

NoFile == [exists |-> FALSE, doc |-> LegacyDoc("invalid", FALSE, <<>>)]
FileWith(doc) == [exists |-> TRUE, doc |-> doc]

\* new Date().toISOString(): the instants the clock can show during a run.
Clock == {Txt(51)}

\* maxStoredEntries: the numbers a store is opened with in a run.
Caps == -1..MaxCap

Stores == {"s1", "s2"}
Calls == {"c1", "c2"}


\* ---------------------------------------------------------------- state
VARIABLES
  dbRows,      \* rows of leaderboard_scores, as committed
  dbSeq,       \* last AUTOINCREMENT id handed out, as committed
  dbMeta,      \* the migration flag row of leaderboard_meta, as committed
  legacyFile,  \* the legacy JSON file
  store,       \* per store object: status, maxStoredEntries, cachedMigrationComplete
  writing,     \* per store: the entry of a writeEntry call between insert and trim
  mcall,       \* per migrateFromLegacyJson call: where it is and its locals
  last,        \* the operation that completed last and its outcome
  committed,   \* history: a migration transaction has committed on the database file
  server,      \* the leaderboard server process, where a run has one: its place in
               \* the module's top-level code, what it logged, its latest response
  hist         \* history, per store object: how its latest migrateFromLegacyJson call
               \* ended: "fresh" (none yet), "openedAfter" (none yet, and the object was
               \* constructed after a migration had committed), "missed" (no legacy
               \* file), "failed" (the file could not be read or parsed, or the scan
               \* failed), "rolledBack" (the transaction failed), "migrated"

vars ==
  <<dbRows, dbSeq, dbMeta, legacyFile, store, writing, mcall, last, committed, hist, server>>

Db(rows, seq, meta) == [rows |-> rows, seq |-> seq, meta |-> meta]
CurrentDb == Db(dbRows, dbSeq, dbMeta)

\* flagAtCall is history: whether the database held the complete flag when the
\* call was made.
IdleCall ==
  [store |-> "s1", pc |-> "idle", flagAtCall |-> FALSE, legacy |-> <<>>, now |-> <<>>,
   scanned |-> {}, toInsert |-> <<>>]

NoWrite == [active |-> FALSE, rowId |-> 0]

\* error: what a failed operation throws at its caller: "engine" (the error as
\* the storage engine raised it), "wrapped" (a new Error carrying a context
\* message and the original as its cause), "fs" (readFile's rejection),
\* "syntax" (JSON.parse), "type" (a TypeError of the language), "argument" (the
\* constructor's own Error). limit, read: the argument of readEntries (in
\* halves) and the array it returned. warnings: the console.warn calls the
\* operation made. opened: the operation has called new Database(path).
Last(op, s, outcome, path, ret, after) ==
  [op |-> op, store |-> s, outcome |-> outcome, path |-> path, ret |-> ret, after |-> after,
   error |-> "none", limit |-> 0, read |-> <<>>, warnings |-> 0, opened |-> FALSE]

Thrown(l, kind) == [l EXCEPT !.error = kind]

\* The server process (tools/leaderboard-server.mjs). phase: "none" (the run
\* has no server process), "boot" (started, before createLeaderboardStore),
\* "migrate" (the store exists, migrateLegacyJsonData not yet called),
\* "migrating" (inside await migrateLegacyJsonData()), "listening"
\* (createServer and server.listen have run), "crashed" (an error left the
\* module's top level). migrateCalls: the migrateFromLegacyJson calls made by
\* this process. log: "migrated" (the console.log of the count), "skipped"
\* (the console.warn of the catch). status: the status code of the latest
\* response, 0 before the first.
NoServer == [phase |-> "none", migrateCalls |-> 0, log |-> "none", status |-> 0]
ServerBoot == [NoServer EXCEPT !.phase = "boot"]

\* A server that starts to listen without awaiting the migration.
ServerTracksWithoutAwait(sv, l) ==
  IF sv.phase = "none" THEN sv
  ELSE CASE l.op = "open" ->
              [sv EXCEPT !.phase = IF l.outcome = "ok" THEN "migrate" ELSE "crashed"]
         [] l.op = "migrate" /\ l.path \in {"cached", "call"} ->
              [sv EXCEPT !.migrateCalls = @ + 1, !.phase = "listening"]
         [] l.op = "migrate" /\ l.path \notin {"cached", "call"} ->
              [sv EXCEPT !.log = IF l.outcome = "error" THEN "skipped"
                                 ELSE IF l.outcome = "ok" /\ l.ret > 0 THEN "migrated"
                                 ELSE @]
         [] l.op \in {"readEntries", "writeEntry", "post"} /\ l.outcome = "ok" ->
              [sv EXCEPT !.status = IF l.op = "readEntries" THEN 200 ELSE 201]
         [] l.op \in {"readEntries", "writeEntry", "post"} /\ l.outcome = "error" ->
              [sv EXCEPT !.status = 400]
         [] OTHER -> sv

\* A migrateLegacyJsonData without its try/catch: the rejection leaves the
\* module's top level.
ServerTracksWithoutCatch(sv, l) ==
  IF sv.phase = "none" THEN sv
  ELSE CASE l.op = "open" ->
              [sv EXCEPT !.phase = IF l.outcome = "ok" THEN "migrate" ELSE "crashed"]
         [] l.op = "migrate" ->
              [sv EXCEPT
                 !.migrateCalls = IF l.path \in {"cached", "call"} THEN @ + 1 ELSE @,
                 !.phase = IF l.outcome = "pending" THEN "migrating"
                           ELSE IF l.outcome = "error" THEN "crashed" ELSE "listening",
                 !.log = IF l.outcome = "ok" /\ l.ret > 0 THEN "migrated" ELSE @]
         [] l.op \in {"readEntries", "writeEntry", "post"} /\ l.outcome = "ok" ->
              [sv EXCEPT !.status = IF l.op = "readEntries" THEN 200 ELSE 201]
         [] l.op \in {"readEntries", "writeEntry", "post"} /\ l.outcome = "error" ->
              [sv EXCEPT !.status = 400]
         [] OTHER -> sv

\* What the server process has become when the operation recorded in l has
\* returned to it. The store is made at the module's top level, outside any
\* try; the migration is awaited inside the try/catch of
\* migrateLegacyJsonData, and createServer and server.listen follow the await
\* in the same turn; a handler answers 200 (GET), 201 (POST) or, from its
\* catch, 400.
ServerTracks(sv, l) ==
  IF sv.phase = "none" THEN sv
  ELSE CASE l.op = "open" ->
              [sv EXCEPT !.phase = IF l.outcome = "ok" THEN "migrate" ELSE "crashed"]
         [] l.op = "migrate" ->
              [sv EXCEPT
                 !.migrateCalls = IF l.path \in {"cached", "call"} THEN @ + 1 ELSE @,
                 !.phase = IF l.outcome = "pending" THEN "migrating" ELSE "listening",
                 !.log = IF l.outcome = "error" THEN "skipped"
                         ELSE IF l.outcome = "ok" /\ l.ret > 0 THEN "migrated"
                         ELSE @]
         [] l.op \in {"readEntries", "writeEntry", "post"} /\ l.outcome = "ok" ->
              [sv EXCEPT !.status = IF l.op = "readEntries" THEN 200 ELSE 201]
         [] l.op \in {"readEntries", "writeEntry", "post"} /\ l.outcome = "error" ->
              [sv EXCEPT !.status = 400]
         [] OTHER -> sv

\* A store is inside a synchronous section: nothing else of its process runs.
Busy(s) ==
  \/ writing[s].active
  \/ \E c \in Calls : mcall[c].store = s /\ mcall[c].pc = "txn"

InFlight(s) == \E c \in Calls : mcall[c].store = s /\ mcall[c].pc # "idle"

Init ==
  /\ dbRows = {}
  /\ dbSeq = 0
  /\ dbMeta = NoMeta
  /\ legacyFile \in {NoFile} \cup {FileWith(d) : d \in LegacyDocs}
  /\ store = [s \in Stores |-> [status |-> "none", cap |-> DEFAULT_MAX_STORED_ENTRIES,
                                 cached |-> FALSE]]
  /\ writing = [s \in Stores |-> NoWrite]
  /\ mcall = [c \in Calls |-> IdleCall]
  /\ last = Last("none", "s1", "ok", "-", 0, "-")
  /\ committed = FALSE
  /\ hist = [s \in Stores |-> "fresh"]
  /\ server = NoServer

\* ------------------------------------------------------- the environment
CreateLegacyFile(doc) ==
  /\ ~legacyFile.exists
  /\ legacyFile' = FileWith(doc)
  /\ last' = Last("file", "s1", "ok", "-", 0, "-")
  /\ UNCHANGED <<dbRows, dbSeq, dbMeta, store, writing, mcall, committed, hist>>
  /\ server' = ServerTracks(server, last')

DeleteLegacyFile ==
  /\ legacyFile.exists
  /\ legacyFile' = NoFile
  /\ last' = Last("file", "s1", "ok", "-", 0, "-")
  /\ UNCHANGED <<dbRows, dbSeq, dbMeta, store, writing, mcall, committed, hist>>
  /\ server' = ServerTracks(server, last')

\* ------------------------------------------------------------ constructor
\* The argument of the constructor. kind: "undefined", "null", "string" (some
\* value that is not an object) or "object"; hasMax: the object has a
\* maxStoredEntries property.
Options(kind, databasePath, hasMax, maxStoredEntries) ==
  [kind |-> kind, databasePath |-> databasePath, hasMax |-> hasMax,
   maxStoredEntries |-> maxStoredEntries]

\* "db": some usable path.
DatabasePathText == <<100, 98>>

\* { databasePath: "db", maxStoredEntries: cap }
ValidOptions(cap) == Options("object", JsString(DatabasePathText), TRUE, cap)

ToLowerCase(t) == [i \in 1..Len(t) |-> IF t[i] \in 65..90 THEN t[i] + 32 ELSE t[i]]

\* What database.pragma("journal_mode = WAL", { simple: true }) does: throws,
\* or returns a value.
Pragma(throws, value) == [throws |-> throws, value |-> value]
WalText == <<119, 97, 108>>
WalAchieved == Pragma(FALSE, JsString(WalText))

\* A comparison with "wal" that minds the case.
configureWalModeCaseSensitive(pragma) ==
  IF pragma.throws THEN 1
  ELSE IF pragma.value.t # "string" \/ pragma.value.s # WalText THEN 1
  ELSE 0

\* configureWalMode: the number of warnings it emits.
configureWalMode(pragma) ==
  IF pragma.throws THEN 1
  ELSE IF pragma.value.t # "string" \/ ToLowerCase(pragma.value.s) # WalText THEN 1
  ELSE 0

\* Schema statements that make the tables anew.
CreateSchemaAnew(db) == Db({}, 0, NoMeta)

\* database.exec of SQL_CREATE_SCORES_TABLE, SQL_CREATE_SCORES_INDEX and
\* SQL_CREATE_META_TABLE: each is IF NOT EXISTS, so a table that exists keeps
\* its rows, and on a new file the tables start empty, which is the empty
\* database.
CreateSchema(db) == db

\* new SqliteLeaderboardStore(options). opens: new Database(databasePath)
\* succeeds.
Constructor(s, options, opens, pragma) ==
  /\ store[s].status # "open"
  /\ ~InFlight(s)
  /\ CASE options.kind # "object" ->
            /\ last' = Thrown(Last("open", s, "error", "options", 0, "-"), "argument")
            /\ UNCHANGED <<store, hist, dbRows, dbSeq, dbMeta>>
       [] options.kind = "object"
            /\ (options.databasePath.t # "string" \/ Trim(options.databasePath.s) = <<>>) ->
            /\ last' = Thrown(Last("open", s, "error", "databasePath", 0, "-"), "argument")
            /\ UNCHANGED <<store, hist, dbRows, dbSeq, dbMeta>>
       [] options.kind = "object" /\ options.databasePath.t = "string"
            /\ Trim(options.databasePath.s) # <<>> /\ ~opens ->
            /\ last' = [Thrown(Last("open", s, "error", "open", 0, "-"), "wrapped")
                           EXCEPT !.opened = TRUE]
            /\ UNCHANGED <<store, hist, dbRows, dbSeq, dbMeta>>
       [] OTHER ->
            /\ dbRows' = CreateSchema(CurrentDb).rows
            /\ dbSeq' = CreateSchema(CurrentDb).seq
            /\ dbMeta' = CreateSchema(CurrentDb).meta
            /\ store' = [store EXCEPT ![s] =
                 [status |-> "open",
                  cap |-> IF options.hasMax THEN options.maxStoredEntries
                                            ELSE DEFAULT_MAX_STORED_ENTRIES,
                  cached |-> getMigrationState(CreateSchema(CurrentDb).meta)
                               = MIGRATION_COMPLETE_FLAG]]
            /\ hist' = [hist EXCEPT ![s] = IF committed THEN "openedAfter" ELSE "fresh"]
            /\ last' = [Last("open", s, "ok", "-", 0, "-")
                           EXCEPT !.opened = TRUE, !.warnings = configureWalMode(pragma)]
  /\ UNCHANGED <<legacyFile, writing, mcall, committed>>
  /\ server' = ServerTracks(server, last')

Close(s) ==
  /\ store[s].status = "open"
  /\ ~Busy(s)
  /\ store' = [store EXCEPT ![s].status = "closed"]
  /\ last' = Last("close", s, "ok", "-", 0, "-")
  /\ UNCHANGED <<dbRows, dbSeq, dbMeta, legacyFile, writing, mcall, committed, hist>>
  /\ server' = ServerTracks(server, last')

\* ------------------------------------------- readEntries and the accessors
\* The rows in the order of ORDER BY created_at DESC, id DESC.
SortedRows(rows) ==
  [i \in 1..Cardinality(rows) |-> CHOOSE r \in rows : RowRank(r, rows) = i]

\* readTopEntriesStatement.all(limit), for a limit that is an integer (given
\* in halves): LIMIT with a negative number puts no upper bound on the rows.
readTopEntries(rows, limit) ==
  IF limit < 0 THEN SortedRows(rows)
  ELSE SubSeq(SortedRows(rows), 1, IF limit \div 2 < Cardinality(rows)
                                     THEN limit \div 2 ELSE Cardinality(rows))

\* readEntries(limit). A number that is no integer is bound as a REAL, which
\* LIMIT refuses (datatype mismatch); a closed connection refuses every
\* statement.
ReadEntries(s, limit) ==
  /\ store[s].status # "none"
  /\ ~Busy(s)
  /\ last' =
       IF store[s].status # "open" \/ limit % 2 # 0
         THEN [Thrown(Last("readEntries", s, "error", "-", 0, "-"), "engine")
                 EXCEPT !.limit = limit]
         ELSE LET rows == readTopEntries(dbRows, limit)
              IN [Last("readEntries", s, "ok", "-", 0, "-") EXCEPT
                    !.limit = limit,
                    !.read = [i \in 1..Len(rows) |-> mapRowToEntry(rows[i])]]
  /\ UNCHANGED <<dbRows, dbSeq, dbMeta, legacyFile, store, writing, mcall, committed, hist>>
  /\ server' = ServerTracks(server, last')

\* getMigrationState(), called from outside.
GetMigrationState(s) ==
  /\ store[s].status # "none"
  /\ ~Busy(s)
  /\ last' =
       IF store[s].status # "open"
         THEN Thrown(Last("getMigrationState", s, "error", "-", 0, "-"), "engine")
         ELSE Last("getMigrationState", s, "ok", "-", getMigrationState(dbMeta), "-")
  /\ UNCHANGED <<dbRows, dbSeq, dbMeta, legacyFile, store, writing, mcall, committed, hist>>
  /\ server' = ServerTracks(server, last')

\* getStorageKind() and getStorageLocation(): they return fields of the object.
Accessors == {"getStorageKind", "getStorageLocation"}
DiagnosticAccessor(s, name) ==
  /\ store[s].status # "none"
  /\ ~Busy(s)
  /\ last' = Last(name, s, "ok", "-", 0, "-")
  /\ UNCHANGED <<dbRows, dbSeq, dbMeta, legacyFile, store, writing, mcall, committed, hist>>
  /\ server' = ServerTracks(server, last')

\* -------------------------------------------------------------- writeEntry
\* writeEntry, first statement: #insertEntry(entry), autocommitted.
\* failed: the storage engine raises an error and the call ends there.
WriteEntryInsert(s, entry, failed) ==
  /\ store[s].status = "open"
  /\ ~Busy(s)
  /\ dbSeq < MaxSeq
  /\ IF failed
       THEN /\ last' = Thrown(Last("writeEntry", s, "error", "insert", 0, "-"), "engine")
            /\ UNCHANGED <<dbRows, dbSeq, writing>>
       ELSE /\ dbRows' = dbRows \cup {insertEntry(entry, dbSeq + 1)}
            /\ dbSeq' = dbSeq + 1
            /\ writing' = [writing EXCEPT ![s] = [active |-> TRUE, rowId |-> dbSeq + 1]]
            /\ last' = Last("writeEntry", s, "pending", "insert", 0, "-")
  /\ UNCHANGED <<dbMeta, legacyFile, store, mcall, committed, hist>>
  /\ server' = ServerTracks(server, last')

\* writeEntry, second statement: trimEntriesStatement.run(maxStoredEntries).
WriteEntryTrim(s, failed) ==
  /\ writing[s].active
  /\ IF failed
       THEN /\ last' = Thrown(Last("writeEntry", s, "error", "trim", 0, "-"), "engine")
            /\ UNCHANGED dbRows
       ELSE /\ dbRows' = trimEntries(dbRows, store[s].cap)
            /\ last' = Last("writeEntry", s, "ok", "trim", 0, "-")
  /\ writing' = [writing EXCEPT ![s] = NoWrite]
  /\ UNCHANGED <<dbSeq, dbMeta, legacyFile, store, mcall, committed, hist>>
  /\ server' = ServerTracks(server, last')


\* ------------------------------------------------------------- migration
\* A normalization that gives up at the first entry it rejects.
RECURSIVE NormalizeEntriesStopsAtInvalid(_, _)
NormalizeEntriesStopsAtInvalid(legacyEntries, now) ==
  IF legacyEntries = <<>> THEN <<>>
  ELSE LET parsed == parseLeaderboardPayloadEntry(Head(legacyEntries), TRUE, now)
       IN IF parsed.ok
            THEN <<parsed.entry>> \o NormalizeEntriesStopsAtInvalid(Tail(legacyEntries), now)
            ELSE <<>>

\* A normalization that calls parseEntry without allowCreatedAt.
RECURSIVE NormalizeEntriesWithoutCreatedAt(_, _)
NormalizeEntriesWithoutCreatedAt(legacyEntries, now) ==
  IF legacyEntries = <<>> THEN <<>>
  ELSE LET parsed == parseLeaderboardPayloadEntry(Head(legacyEntries), FALSE, now)
           rest == NormalizeEntriesWithoutCreatedAt(Tail(legacyEntries), now)
       IN IF parsed.ok THEN <<parsed.entry>> \o rest ELSE rest

\* legacyEntries.map(parseEntry with allowCreatedAt).filter(not null)
RECURSIVE NormalizeEntries(_, _)
NormalizeEntries(legacyEntries, now) ==
  IF legacyEntries = <<>> THEN <<>>
  ELSE LET parsed == parseLeaderboardPayloadEntry(Head(legacyEntries), TRUE, now)
           rest == NormalizeEntries(Tail(legacyEntries), now)
       IN IF parsed.ok THEN <<parsed.entry>> \o rest ELSE rest

\* A scan that puts the row id in front of each identity.
ScanIdentitiesWithRowId(rows) ==
  {Decimal(r.id) \o <<PipeChar>> \o createEntryIdentity(mapRowToEntry(r)) : r \in rows}

\* A scan that finds no row.
ScanIdentitiesSkipsRows(rows) == {}

\* for (const row of readAllEntriesStatement.iterate()) existingIdentitySet.add(...)
ScanIdentities(rows) == {createEntryIdentity(mapRowToEntry(r)) : r \in rows}

\* A loop that does not add the identities it inserts to the set.
RECURSIVE EntriesToInsertKeepsBatchDuplicates(_, _)
EntriesToInsertKeepsBatchDuplicates(normalizedEntries, existingIdentitySet) ==
  IF normalizedEntries = <<>> THEN <<>>
  ELSE LET entry == Head(normalizedEntries)
           rest == EntriesToInsertKeepsBatchDuplicates(Tail(normalizedEntries),
                                                       existingIdentitySet)
       IN IF createEntryIdentity(entry) \in existingIdentitySet
            THEN rest
            ELSE <<entry>> \o rest

\* The loop that fills entriesToInsert.
RECURSIVE EntriesToInsert(_, _)
EntriesToInsert(normalizedEntries, existingIdentitySet) ==
  IF normalizedEntries = <<>> THEN <<>>
  ELSE LET entry == Head(normalizedEntries)
           identity == createEntryIdentity(entry)
       IN IF identity \in existingIdentitySet
            THEN EntriesToInsert(Tail(normalizedEntries), existingIdentitySet)
            ELSE <<entry>> \o EntriesToInsert(Tail(normalizedEntries),
                                               existingIdentitySet \cup {identity})

\* An insert loop that looks at the table again and leaves out what is stored.
RECURSIVE InsertEntriesRechecksRows(_, _)
InsertEntriesRechecksRows(db, entries) ==
  IF entries = <<>> THEN db
  ELSE IF createEntryIdentity(Head(entries)) \in ScanIdentities(db.rows)
    THEN InsertEntriesRechecksRows(db, Tail(entries))
    ELSE InsertEntriesRechecksRows(
           Db(db.rows \cup {insertEntry(Head(entries), db.seq + 1)}, db.seq + 1, db.meta),
           Tail(entries))

RECURSIVE InsertEntries(_, _)
InsertEntries(db, entries) ==
  IF entries = <<>> THEN db
  ELSE InsertEntries(
         Db(db.rows \cup {insertEntry(Head(entries), db.seq + 1)}, db.seq + 1, db.meta),
         Tail(entries))

\* Where the storage engine raises an error inside the transaction, if at all.
NoFault == [at |-> "none", k |-> 0]
TxnFaults(entries) ==
  {[at |-> a, k |-> 0] : a \in {"none", "begin", "trim", "flag", "commit"}}
    \cup {[at |-> "insert", k |-> k] : k \in 1..Len(entries)}

\* What the statements of the transaction body have done when the fault
\* strikes (or when the body ends).
TransactionWork(db, entries, cap, fault) ==
  LET inserted == InsertEntries(db, entries)
      trimmed == Db(trimEntries(inserted.rows, cap), inserted.seq, inserted.meta)
      flagged == Db(trimmed.rows, trimmed.seq,
                    MetaText(Decimal(MIGRATION_COMPLETE_FLAG)))
  IN CASE fault.at = "begin" -> db
       [] fault.at = "insert" -> InsertEntries(db, SubSeq(entries, 1, fault.k - 1))
       [] fault.at = "trim" -> inserted
       [] fault.at = "flag" -> trimmed
       [] OTHER -> flagged

\* A rollback that leaves the rows written before the failure in place.
RollbackKeepsRows(before, work) == Db(work.rows, work.seq, before.meta)

\* A rollback that empties the table.
RollbackDropsRows(before, work) == Db({}, before.seq, before.meta)

\* A rollback that leaves the flag written before the failure in place.
RollbackKeepsFlag(before, work) == Db(before.rows, before.seq, work.meta)

\* database.transaction(fn): a throw inside fn, or a failing COMMIT, rolls back.
Rollback(before, work) == before

\* What the caller of the transaction function catches: the try/catch that
\* wraps the error is inside the function body, BEGIN and COMMIT are run by
\* database.transaction around it.
TransactionError(fault) ==
  IF fault.at \in {"insert", "trim", "flag"} THEN "wrapped" ELSE "engine"

\* A transaction that is left out when there is nothing to insert.
migrateAndTrimSkipsEmptyBatch(db, entries, cap, fault) ==
  LET work == TransactionWork(db, entries, cap, fault)
  IN IF entries = <<>> THEN [committed |-> TRUE, db |-> db]
     ELSE IF fault.at = "none"
       THEN [committed |-> TRUE, db |-> work]
       ELSE [committed |-> FALSE, db |-> Rollback(db, work)]

migrateAndTrimTransaction(db, entries, cap, fault) ==
  LET work == TransactionWork(db, entries, cap, fault)
  IN IF fault.at = "none"
       THEN [committed |-> TRUE, db |-> work]
       ELSE [committed |-> FALSE, db |-> Rollback(db, work)]

\* An existence test that always answers yes.
fileExistsAlways(file) == TRUE

\* fileExists(path): access() resolves or rejects.
fileExists(file) == file.exists

\* A store whose cache is left as it was.
CacheLeftUnset(st) == st

\* this.cachedMigrationComplete = true
SetCachedMigrationComplete(st) == [st EXCEPT !.cached = TRUE]

\* migrateFromLegacyJson up to its first await: the cache check.
MigrateCall(c, s) ==
  /\ mcall[c].pc = "idle"
  /\ store[s].status # "none"
  /\ ~Busy(s)
  /\ IF store[s].cached
       THEN /\ last' = Last("migrate", s, "ok", "cached", 0, hist[s])
            /\ UNCHANGED mcall
       ELSE /\ mcall' = [mcall EXCEPT ![c] =
                 [IdleCall EXCEPT !.store = s, !.pc = "access",
                    !.flagAtCall = getMigrationState(dbMeta) = MIGRATION_COMPLETE_FLAG]]
            /\ last' = Last("migrate", s, "pending", "call", 0, "-")
  /\ UNCHANGED <<dbRows, dbSeq, dbMeta, legacyFile, store, writing, committed, hist>>
  /\ server' = ServerTracks(server, last')

\* await fileExists(legacyPath) resolves.
MigrateFileExists(c) ==
  /\ mcall[c].pc = "access"
  /\ ~Busy(mcall[c].store)
  /\ IF fileExists(legacyFile)
       THEN /\ mcall' = [mcall EXCEPT ![c].pc = "readFile"]
            /\ last' = Last("migrate", mcall[c].store, "pending", "access", 0, "-")
            /\ UNCHANGED hist
       ELSE /\ mcall' = [mcall EXCEPT ![c] = IdleCall]
            /\ last' = Last("migrate", mcall[c].store, "ok", "missing", 0, hist[mcall[c].store])
            /\ hist' = [hist EXCEPT ![mcall[c].store] = "missed"]
  /\ UNCHANGED <<dbRows, dbSeq, dbMeta, legacyFile, store, writing, committed>>
  /\ server' = ServerTracks(server, last')

\* parsed.entries of JSON.parse(raw), when neither throws.
LegacyEntriesOf(doc) ==
  IF doc.json = "object" /\ doc.hasEntriesArray THEN doc.entries ELSE <<>>

\* await readFile resolves; JSON.parse, the normalizer and the scan of the
\* table follow in the same turn.
MigrateRead(c, now) ==
  LET s == mcall[c].store
      doc == legacyFile.doc
      normalizedEntries == NormalizeEntries(LegacyEntriesOf(doc), now)
      entriesToInsert == EntriesToInsert(normalizedEntries, ScanIdentities(dbRows))
  IN
  /\ mcall[c].pc = "readFile"
  /\ ~Busy(s)
  /\ CASE ~legacyFile.exists ->
            /\ mcall' = [mcall EXCEPT ![c] = IdleCall]
            /\ last' = Thrown(Last("migrate", s, "error", "readFile", 0, hist[s]), "fs")
            /\ hist' = [hist EXCEPT ![s] = "failed"]
       [] legacyFile.exists /\ doc.json = "invalid" ->
            /\ mcall' = [mcall EXCEPT ![c] = IdleCall]
            /\ last' = Thrown(Last("migrate", s, "error", "parse", 0, hist[s]), "syntax")
            /\ hist' = [hist EXCEPT ![s] = "failed"]
       [] legacyFile.exists /\ doc.json = "null" ->
            /\ mcall' = [mcall EXCEPT ![c] = IdleCall]
            /\ last' = Thrown(Last("migrate", s, "error", "shape", 0, hist[s]), "type")
            /\ hist' = [hist EXCEPT ![s] = "failed"]
       [] legacyFile.exists /\ doc.json \in {"object", "scalar"}
            /\ store[s].status # "open" ->
            /\ mcall' = [mcall EXCEPT ![c] = IdleCall]
            /\ last' = Thrown(Last("migrate", s, "error", "scan", 0, hist[s]), "engine")
            /\ hist' = [hist EXCEPT ![s] = "failed"]
       [] OTHER ->
            /\ dbSeq + Len(entriesToInsert) <= MaxSeq
            /\ mcall' = [mcall EXCEPT ![c] =
                 [store |-> s, pc |-> "txn", flagAtCall |-> mcall[c].flagAtCall,
                  legacy |-> LegacyEntriesOf(doc), now |-> now, scanned |-> dbRows,
                  toInsert |-> entriesToInsert]]
            /\ last' = Last("migrate", s, "pending", "scan", 0, "-")
            /\ UNCHANGED hist
  /\ UNCHANGED <<dbRows, dbSeq, dbMeta, legacyFile, store, writing, committed>>
  /\ server' = ServerTracks(server, last')

\* A count that takes in the duplicates.
MigratedCountOfNormalized(normalizedEntries, entriesToInsert) == Len(normalizedEntries)

\* return entriesToInsert.length
MigratedCount(normalizedEntries, entriesToInsert) == Len(entriesToInsert)

\* migrateAndTrimTransaction(entriesToInsert), then the cache and the return.
MigrateTransaction(c, fault) ==
  LET s == mcall[c].store
      result == migrateAndTrimTransaction(CurrentDb, mcall[c].toInsert, store[s].cap, fault)
  IN
  /\ mcall[c].pc = "txn"
  /\ dbSeq + Len(mcall[c].toInsert) <= MaxSeq
  /\ dbRows' = result.db.rows
  /\ dbSeq' = result.db.seq
  /\ dbMeta' = result.db.meta
  /\ IF result.committed
       THEN /\ store' = [store EXCEPT ![s] = SetCachedMigrationComplete(store[s])]
            /\ last' = Last("migrate", s, "ok", "imported",
                            MigratedCount(NormalizeEntries(mcall[c].legacy, mcall[c].now),
                                          mcall[c].toInsert),
                            hist[s])
            /\ hist' = [hist EXCEPT ![s] = "migrated"]
            /\ committed' = TRUE
       ELSE /\ UNCHANGED <<store, committed>>
            /\ last' = Thrown(Last("migrate", s, "error", "transaction", 0, hist[s]),
                               TransactionError(fault))
            /\ hist' = [hist EXCEPT ![s] = "rolledBack"]
  /\ mcall' = [mcall EXCEPT ![c] = IdleCall]
  /\ UNCHANGED <<legacyFile, writing>>
  /\ server' = ServerTracks(server, last')

\* The entries a caller hands to writeEntry: what the normalizer returns for a
\* payload, with or without allowCreatedAt.
WritableEntries ==
  {parseLeaderboardPayloadEntry(t[1], TRUE, t[2]).entry :
     t \in {u \in WritePayloads \X Clock :
              parseLeaderboardPayloadEntry(u[1], TRUE, u[2]).ok}}

\* One process: one store object at a time on the database file, one
\* migrateFromLegacyJson call at a time.
Next ==
  \/ \E d \in LegacyDocs : CreateLegacyFile(d)
  \/ DeleteLegacyFile
  \/ \E cap \in Caps : Constructor("s1", ValidOptions(cap), TRUE, WalAchieved)
  \/ Close("s1")
  \/ \E e \in WritableEntries, failed \in BOOLEAN : WriteEntryInsert("s1", e, failed)
  \/ \E failed \in BOOLEAN : WriteEntryTrim("s1", failed)
  \/ MigrateCall("c1", "s1")
  \/ MigrateFileExists("c1")
  \/ \E now \in Clock : MigrateRead("c1", now)
  \/ \E fault \in TxnFaults(mcall["c1"].toInsert) : MigrateTransaction("c1", fault)

Spec == Init /\ [][Next]_vars

\* Two processes, each with a store object open on the same database file and
\* each making its migration calls on its own store; the legacy file is in
\* place from the start and stays as it is.
SharedDocs == {LegacyDoc("object", TRUE, es) : es \in SeqsUpTo({PayloadA}, MaxLegacyLen)}

InitShared ==
  /\ dbRows = {}
  /\ dbSeq = 0
  /\ dbMeta = NoMeta
  /\ legacyFile \in {FileWith(d) : d \in SharedDocs}
  /\ store = [s \in Stores |-> [status |-> "none", cap |-> DEFAULT_MAX_STORED_ENTRIES,
                                 cached |-> FALSE]]
  /\ writing = [s \in Stores |-> NoWrite]
  /\ mcall = [c \in Calls |-> IdleCall]
  /\ last = Last("none", "s1", "ok", "-", 0, "-")
  /\ committed = FALSE
  /\ hist = [s \in Stores |-> "fresh"]
  /\ server = NoServer

NextShared ==
  \/ \E s \in Stores, cap \in Caps : Constructor(s, ValidOptions(cap), TRUE, WalAchieved)
  \/ \E s \in Stores : Close(s)
  \/ \E s \in Stores, e \in WritableEntries : WriteEntryInsert(s, e, FALSE)
  \/ \E s \in Stores, failed \in BOOLEAN : WriteEntryTrim(s, failed)
  \/ MigrateCall("c1", "s1")
  \/ MigrateCall("c2", "s2")
  \/ \E c \in Calls : MigrateFileExists(c)
  \/ \E c \in Calls, now \in Clock : MigrateRead(c, now)
  \/ \E c \in Calls : \E fault \in TxnFaults(mcall[c].toInsert) : MigrateTransaction(c, fault)

SpecShared == InitShared /\ [][NextShared]_vars


\* Two processes that do nothing but open a store on the same database file
\* and migrate the same legacy file, with the default cap among the caps.
RaceCaps == Caps \cup {DEFAULT_MAX_STORED_ENTRIES}

InitRace ==
  /\ InitShared
  /\ legacyFile.doc.entries # <<>>

NextRace ==
  \/ \E s \in Stores, cap \in RaceCaps : Constructor(s, ValidOptions(cap), TRUE, WalAchieved)
  \/ MigrateCall("c1", "s1")
  \/ MigrateCall("c2", "s2")
  \/ \E c \in Calls : MigrateFileExists(c)
  \/ \E c \in Calls, now \in Clock : MigrateRead(c, now)
  \/ \E c \in Calls : \E fault \in TxnFaults(mcall[c].toInsert) : MigrateTransaction(c, fault)

SpecRace == InitRace /\ [][NextRace]_vars


\* One process and every operation of the store, with arguments and
\* surroundings of every kind: constructor arguments that are refused, a
\* database file that cannot be opened, every outcome of the journal_mode
\* pragma, limits of every sign, and timestamps with a UTC offset. The legacy
\* file is absent or holds one entry, and stays as it is.
PayloadOffset == Payload(JsString(Txt(97)), JsNumber(6), JsString(<<52, 43, 50>>))

OpsEntries ==
  {parseLeaderboardPayloadEntry(p, TRUE, now).entry :
     p \in {PayloadB, PayloadNoDate, PayloadOffset}, now \in Clock}

InvalidOptions ==
  {Options(k, JsString(DatabasePathText), FALSE, 0) : k \in {"undefined", "null", "string"}}
    \cup {Options("object", path, FALSE, 0) :
            path \in {JsUndefined, JsNumber(2), JsString(<<>>), JsString(<<32>>)}}

UsableOptions ==
  {ValidOptions(cap) : cap \in Caps}
    \cup {Options("object", JsString(DatabasePathText), FALSE, 0)}

Pragmas ==
  {WalAchieved, Pragma(FALSE, JsString(<<87, 65, 76>>)),
   Pragma(FALSE, JsString(<<109, 101, 109, 111, 114, 121>>)),
   Pragma(FALSE, JsUndefined), Pragma(TRUE, JsUndefined)}

Limits == {-2, 1} \cup {2 * n : n \in 0..MaxSeq}

InitOps ==
  /\ dbRows = {}
  /\ dbSeq = 0
  /\ dbMeta = NoMeta
  /\ legacyFile \in {NoFile, FileWith(LegacyDoc("object", TRUE, <<PayloadB>>))}
  /\ store = [s \in Stores |-> [status |-> "none", cap |-> DEFAULT_MAX_STORED_ENTRIES,
                                 cached |-> FALSE]]
  /\ writing = [s \in Stores |-> NoWrite]
  /\ mcall = [c \in Calls |-> IdleCall]
  /\ last = Last("none", "s1", "ok", "-", 0, "-")
  /\ committed = FALSE
  /\ hist = [s \in Stores |-> "fresh"]
  /\ server = NoServer

NextOps ==
  \/ \E o \in InvalidOptions : Constructor("s1", o, TRUE, WalAchieved)
  \/ \E o \in UsableOptions : Constructor("s1", o, FALSE, WalAchieved)
  \/ \E o \in UsableOptions, pragma \in Pragmas : Constructor("s1", o, TRUE, pragma)
  \/ Close("s1")
  \/ \E limit \in Limits : ReadEntries("s1", limit)
  \/ GetMigrationState("s1")
  \/ \E name \in Accessors : DiagnosticAccessor("s1", name)
  \/ \E e \in OpsEntries, failed \in BOOLEAN : WriteEntryInsert("s1", e, failed)
  \/ \E failed \in BOOLEAN : WriteEntryTrim("s1", failed)
  \/ MigrateCall("c1", "s1")
  \/ MigrateFileExists("c1")
  \/ \E now \in Clock : MigrateRead("c1", now)
  \/ \E fault \in TxnFaults(mcall["c1"].toInsert) : MigrateTransaction("c1", fault)

SpecOps == InitOps /\ [][NextOps]_vars

\* One process that opens, writes and migrates, with legacy documents of
\* every shape.
ShapeEntries == {parseLeaderboardPayloadEntry(PayloadB, TRUE, now).entry : now \in Clock}

ShapeFileDocs ==
  ShapeDocs \cup
    {LegacyDoc("object", TRUE, es) :
       es \in {<<>>, <<PayloadB>>, <<PayloadNoName>>, <<PayloadA>>}}

InitShapes ==
  /\ dbRows = {}
  /\ dbSeq = 0
  /\ dbMeta = NoMeta
  /\ legacyFile \in {NoFile} \cup {FileWith(d) : d \in ShapeFileDocs}
  /\ store = [s \in Stores |-> [status |-> "none", cap |-> DEFAULT_MAX_STORED_ENTRIES,
                                 cached |-> FALSE]]
  /\ writing = [s \in Stores |-> NoWrite]
  /\ mcall = [c \in Calls |-> IdleCall]
  /\ last = Last("none", "s1", "ok", "-", 0, "-")
  /\ committed = FALSE
  /\ hist = [s \in Stores |-> "fresh"]
  /\ server = NoServer

NextShapes ==
  \/ \E d \in ShapeFileDocs : CreateLegacyFile(d)
  \/ DeleteLegacyFile
  \/ \E o \in UsableOptions : Constructor("s1", o, TRUE, WalAchieved)
  \/ Close("s1")
  \/ \E e \in ShapeEntries : WriteEntryInsert("s1", e, FALSE)
  \/ \E failed \in BOOLEAN : WriteEntryTrim("s1", failed)
  \/ MigrateCall("c1", "s1")
  \/ MigrateFileExists("c1")
  \/ \E now \in Clock : MigrateRead("c1", now)
  \/ \E fault \in TxnFaults(mcall["c1"].toInsert) : MigrateTransaction("c1", fault)

SpecShapes == InitShapes /\ [][NextShapes]_vars

\* ------------------------------------------------------ the server process
\* const leaderboardStore = createLeaderboardStore({ ..., maxStoredEntries }),
\* at the module's top level.
ServerCreateStore(cap, opens) ==
  /\ server.phase = "boot"
  /\ Constructor("s1", ValidOptions(cap), opens, WalAchieved)

\* await migrateLegacyJsonData(): the one call of migrateFromLegacyJson, with
\* parseLeaderboardPayloadEntry as the normalizer.
ServerMigrate ==
  /\ server.phase = "migrate"
  /\ MigrateCall("c1", "s1")

\* The GET handler, with the limit it has made of the query.
ServerGet(limit) ==
  /\ server.phase = "listening"
  /\ ReadEntries("s1", limit)

\* The POST handler for a body that parses to payload: the normalizer is
\* called without options, then writeEntry. A payload the normalizer rejects
\* ends in the catch.
ServerPost(payload, now, failed) ==
  LET nextEntry == parseLeaderboardPayloadEntry(payload, FALSE, now)
  IN /\ server.phase = "listening"
     /\ IF nextEntry.ok
          THEN WriteEntryInsert("s1", nextEntry.entry, failed)
          ELSE /\ ~Busy("s1")
               /\ last' = Thrown(Last("post", "s1", "error", "normalize", 0, "-"), "argument")
               /\ server' = ServerTracks(server, last')
               /\ UNCHANGED <<dbRows, dbSeq, dbMeta, legacyFile, store, writing, mcall,
                              committed, hist>>

\* The process ends, at any point, and is started again: its store object,
\* its calls in flight and a writeEntry between its two statements are gone.
ServerExit ==
  /\ server.phase # "boot"
  /\ server' = ServerBoot
  /\ store' = [store EXCEPT !["s1"] = [status |-> "none", cap |-> DEFAULT_MAX_STORED_ENTRIES,
                                        cached |-> FALSE]]
  /\ writing' = [writing EXCEPT !["s1"] = NoWrite]
  /\ mcall' = [c \in Calls |-> IdleCall]
  /\ last' = Last("exit", "s1", "ok", "-", 0, "-")
  /\ UNCHANGED <<dbRows, dbSeq, dbMeta, legacyFile, committed, hist>>

\* The retention caps and the limits the server hands to the store, the
\* bodies that are posted, and the legacy documents of a server run.
ServerCaps == {MaxCap, DEFAULT_MAX_STORED_ENTRIES}
ServerLimits == {2, 20}
PostPayloads == {PayloadB, PayloadNoName}
ServerDocs == {LegacyDoc("invalid", FALSE, <<>>), LegacyDoc("object", TRUE, <<PayloadA>>)}

InitServer ==
  /\ dbRows = {}
  /\ dbSeq = 0
  /\ dbMeta = NoMeta
  /\ legacyFile \in {NoFile} \cup {FileWith(d) : d \in ServerDocs}
  /\ store = [s \in Stores |-> [status |-> "none", cap |-> DEFAULT_MAX_STORED_ENTRIES,
                                 cached |-> FALSE]]
  /\ writing = [s \in Stores |-> NoWrite]
  /\ mcall = [c \in Calls |-> IdleCall]
  /\ last = Last("none", "s1", "ok", "-", 0, "-")
  /\ committed = FALSE
  /\ hist = [s \in Stores |-> "fresh"]
  /\ server = ServerBoot

NextServer ==
  \/ \E d \in ServerDocs : CreateLegacyFile(d)
  \/ DeleteLegacyFile
  \/ \E cap \in ServerCaps, opens \in BOOLEAN : ServerCreateStore(cap, opens)
  \/ ServerMigrate
  \/ MigrateFileExists("c1")
  \/ \E now \in Clock : MigrateRead("c1", now)
  \/ \E fault \in TxnFaults(mcall["c1"].toInsert) : MigrateTransaction("c1", fault)
  \/ \E limit \in ServerLimits : ServerGet(limit)
  \/ \E payload \in PostPayloads, now \in Clock, failed \in BOOLEAN :
       ServerPost(payload, now, failed)
  \/ \E failed \in BOOLEAN : WriteEntryTrim("s1", failed)
  \/ ServerExit

SpecServer == InitServer /\ [][NextServer]_vars

\* The server process with payloads of every kind, field by field: a run has
\* one legacy entry and handles one POST.
StringFields == {"playerName", "difficultyId", "difficultyLabel", "emojiSetId", "emojiSetLabel"}
NumberFields == {"timeMs", "attempts", "scoreMultiplier", "scoreValue"}

\* undefined, a number, "", " ", " x ".
StringFieldValues ==
  {JsUndefined, JsNumber(2), JsString(<<>>), JsString(<<32>>), JsString(<<32, 120, 32>>)}

\* undefined, null, "6", Infinity, -1.5, 3.5.
NumberFieldValues ==
  {JsUndefined, JsNull, JsString(Txt(54)), JsInfinity, JsNumber(-3), JsNumber(7)}

\* undefined, a number, "", " ", "x", " 2".
CreatedAtValues ==
  {JsUndefined, JsNumber(2), JsString(<<>>), JsString(<<32>>), JsString(Txt(120)),
   JsString(<<32, 50>>)}

\* true, "true", undefined.
AutoDemoValues == {JsBoolean(TRUE), JsString(TrueText), JsUndefined}

FieldPayloads ==
  {PayloadA, [PayloadA EXCEPT !.kind = "null"]}
    \cup {[PayloadA EXCEPT ![f] = v] : f \in StringFields, v \in StringFieldValues}
    \cup {[PayloadA EXCEPT ![f] = v] : f \in NumberFields, v \in NumberFieldValues}
    \cup {[PayloadA EXCEPT !.createdAt = v] : v \in CreatedAtValues}
    \cup {[PayloadA EXCEPT !.isAutoDemo = v] : v \in AutoDemoValues}

\* The first request of the process is a POST.
FirstPost(payload, now) ==
  /\ server.status = 0
  /\ ServerPost(payload, now, FALSE)

InitFields ==
  /\ dbRows = {}
  /\ dbSeq = 0
  /\ dbMeta = NoMeta
  /\ legacyFile \in {FileWith(LegacyDoc("object", TRUE, <<p>>)) : p \in FieldPayloads}
  /\ store = [s \in Stores |-> [status |-> "none", cap |-> DEFAULT_MAX_STORED_ENTRIES,
                                 cached |-> FALSE]]
  /\ writing = [s \in Stores |-> NoWrite]
  /\ mcall = [c \in Calls |-> IdleCall]
  /\ last = Last("none", "s1", "ok", "-", 0, "-")
  /\ committed = FALSE
  /\ hist = [s \in Stores |-> "fresh"]
  /\ server = ServerBoot

NextFields ==
  \/ ServerCreateStore(DEFAULT_MAX_STORED_ENTRIES, TRUE)
  \/ ServerMigrate
  \/ MigrateFileExists("c1")
  \/ \E now \in Clock : MigrateRead("c1", now)
  \/ MigrateTransaction("c1", NoFault)
  \/ \E payload \in FieldPayloads, now \in Clock : FirstPost(payload, now)
  \/ WriteEntryTrim("s1", FALSE)
  \/ \E limit \in ServerLimits : ServerGet(limit)

SpecFields == InitFields /\ [][NextFields]_vars

\* ------------------------------------------- strings with the separator
\* One store migrating a legacy file of two entries whose difficultyId and
\* difficultyLabel are "n" or "n|n" and whose createdAt is "1" or "2".
IdentityStrings == {Txt(110), <<110, PipeChar, 110>>}

IdentityPayloads ==
  {[PayloadA EXCEPT !.difficultyId = JsString(a), !.difficultyLabel = JsString(b),
                    !.createdAt = JsString(t)] :
     a \in IdentityStrings, b \in IdentityStrings, t \in {Txt(49), Txt(50)}}

InitIdentity ==
  /\ dbRows = {}
  /\ dbSeq = 0
  /\ dbMeta = NoMeta
  /\ legacyFile \in {FileWith(LegacyDoc("object", TRUE, <<p, q>>)) :
                       p \in IdentityPayloads, q \in IdentityPayloads}
  /\ store = [s \in Stores |-> [status |-> "none", cap |-> DEFAULT_MAX_STORED_ENTRIES,
                                 cached |-> FALSE]]
  /\ writing = [s \in Stores |-> NoWrite]
  /\ mcall = [c \in Calls |-> IdleCall]
  /\ last = Last("none", "s1", "ok", "-", 0, "-")
  /\ committed = FALSE
  /\ hist = [s \in Stores |-> "fresh"]
  /\ server = NoServer

NextIdentity ==
  \/ Constructor("s1", ValidOptions(DEFAULT_MAX_STORED_ENTRIES), TRUE, WalAchieved)
  \/ MigrateCall("c1", "s1")
  \/ MigrateFileExists("c1")
  \/ \E now \in Clock : MigrateRead("c1", now)
  \/ MigrateTransaction("c1", NoFault)

SpecIdentity == InitIdentity /\ [][NextIdentity]_vars

\* ------------------------------------------------ two calls on one store
\* One store object on which migrateFromLegacyJson is called twice, the second
\* call possibly before the first has resolved; the legacy file is in place
\* from the start and has at least one entry.
PayloadSameInstant == Payload(JsString(Txt(99)), JsNumber(6), JsString(Txt(49)))

OverlapDocs ==
  {LegacyDoc("object", TRUE, es) :
     es \in SeqsUpTo({PayloadA, PayloadB, PayloadSameInstant}, MaxLegacyLen) \ {<<>>}}

InitOverlap ==
  /\ dbRows = {}
  /\ dbSeq = 0
  /\ dbMeta = NoMeta
  /\ legacyFile \in {FileWith(d) : d \in OverlapDocs}
  /\ store = [s \in Stores |-> [status |-> "none", cap |-> DEFAULT_MAX_STORED_ENTRIES,
                                 cached |-> FALSE]]
  /\ writing = [s \in Stores |-> NoWrite]
  /\ mcall = [c \in Calls |-> IdleCall]
  /\ last = Last("none", "s1", "ok", "-", 0, "-")
  /\ committed = FALSE
  /\ hist = [s \in Stores |-> "fresh"]
  /\ server = NoServer

NextOverlap ==
  \/ \E cap \in RaceCaps : Constructor("s1", ValidOptions(cap), TRUE, WalAchieved)
  \/ \E c \in Calls : MigrateCall(c, "s1")
  \/ \E c \in Calls : MigrateFileExists(c)
  \/ \E c \in Calls, now \in Clock : MigrateRead(c, now)
  \/ \E c \in Calls : MigrateTransaction(c, NoFault)

SpecOverlap == InitOverlap /\ [][NextOverlap]_vars

\* --------------------------------------------------- writes, reads, trims
\* One store object at a time on the database file, opened with a cap that
\* changes from one opening to the next; entries with the timestamps "1" and
\* "2", two of them with the same timestamp; a legacy file with no entries, so
\* that a migration call runs the trim alone.
WritesEntries ==
  {parseLeaderboardPayloadEntry(p, TRUE, now).entry :
     p \in {PayloadA, PayloadB, PayloadSameInstant}, now \in Clock}

WritesLimits == {2 * n : n \in 1..MaxSeq}

InitWrites ==
  /\ dbRows = {}
  /\ dbSeq = 0
  /\ dbMeta = NoMeta
  /\ legacyFile = FileWith(LegacyDoc("object", TRUE, <<>>))
  /\ store = [s \in Stores |-> [status |-> "none", cap |-> DEFAULT_MAX_STORED_ENTRIES,
                                 cached |-> FALSE]]
  /\ writing = [s \in Stores |-> NoWrite]
  /\ mcall = [c \in Calls |-> IdleCall]
  /\ last = Last("none", "s1", "ok", "-", 0, "-")
  /\ committed = FALSE
  /\ hist = [s \in Stores |-> "fresh"]
  /\ server = NoServer

NextWrites ==
  \/ \E cap \in RaceCaps : Constructor("s1", ValidOptions(cap), TRUE, WalAchieved)
  \/ Close("s1")
  \/ \E e \in WritesEntries : WriteEntryInsert("s1", e, FALSE)
  \/ \E failed \in BOOLEAN : WriteEntryTrim("s1", failed)
  \/ \E limit \in WritesLimits : ReadEntries("s1", limit)
  \/ \E c \in Calls : MigrateCall(c, "s1")
  \/ \E c \in Calls : MigrateFileExists(c)
  \/ \E c \in Calls, now \in Clock : MigrateRead(c, now)
  \/ \E c \in Calls : MigrateTransaction(c, NoFault)

SpecWrites == InitWrites /\ [][NextWrites]_vars

\* ------------------------------------------------- the storage round trip
\* One store with the default cap: entries are written, then a legacy file of
\* one entry is migrated. The entries: " b" at "2 "; one with isAutoDemo
\* true; one whose player name is an emoji (a surrogate pair); one whose
\* player name is a high surrogate alone, as JSON.parse makes of "\ud83d".
PayloadAutoDemo == [PayloadA EXCEPT !.isAutoDemo = JsBoolean(TRUE)]
PayloadEmoji == [PayloadA EXCEPT !.playerName = JsString(<<55357, 56832>>)]
PayloadLoneSurrogate == [PayloadA EXCEPT !.playerName = JsString(<<55357>>)]

RoundTripPayloads == {PayloadB, PayloadAutoDemo, PayloadEmoji, PayloadLoneSurrogate}

RoundTripEntries ==
  {parseLeaderboardPayloadEntry(p, TRUE, now).entry : p \in RoundTripPayloads, now \in Clock}

InitRoundTrip ==
  /\ dbRows = {}
  /\ dbSeq = 0
  /\ dbMeta = NoMeta
  /\ legacyFile \in {FileWith(LegacyDoc("object", TRUE, <<p>>)) : p \in RoundTripPayloads}
  /\ store = [s \in Stores |-> [status |-> "none", cap |-> DEFAULT_MAX_STORED_ENTRIES,
                                 cached |-> FALSE]]
  /\ writing = [s \in Stores |-> NoWrite]
  /\ mcall = [c \in Calls |-> IdleCall]
  /\ last = Last("none", "s1", "ok", "-", 0, "-")
  /\ committed = FALSE
  /\ hist = [s \in Stores |-> "fresh"]
  /\ server = NoServer

NextRoundTrip ==
  \/ Constructor("s1", ValidOptions(DEFAULT_MAX_STORED_ENTRIES), TRUE, WalAchieved)
  \/ \E e \in RoundTripEntries : WriteEntryInsert("s1", e, FALSE)
  \/ WriteEntryTrim("s1", FALSE)
  \/ MigrateCall("c1", "s1")
  \/ MigrateFileExists("c1")
  \/ \E now \in Clock : MigrateRead("c1", now)
  \/ MigrateTransaction("c1", NoFault)

SpecRoundTrip == InitRoundTrip /\ [][NextRoundTrip]_vars

\* ------------------------------------------------------ the POST request
\* A request body: its size in bytes, whether its text is blank after
\* trimming, what JSON.parse makes of it ("invalid": it throws) and the value
\* it parses to.
MAX_REQUEST_BODY_BYTES == 1048576

Body(bytes, blank, json, payload) ==
  [bytes |-> bytes, blank |-> blank, json |-> json, payload |-> payload]

\* A body parser without the size check.
parseRequestBodyWithoutLimit(body) ==
  IF body.blank THEN [ok |-> FALSE, error |-> "empty", payload |-> body.payload]
  ELSE IF body.json = "invalid" THEN [ok |-> FALSE, error |-> "syntax", payload |-> body.payload]
  ELSE [ok |-> TRUE, error |-> "none", payload |-> body.payload]

parseRequestBody(body) ==
  IF body.bytes > MAX_REQUEST_BODY_BYTES
    THEN [ok |-> FALSE, error |-> "size", payload |-> body.payload]
  ELSE IF body.blank THEN [ok |-> FALSE, error |-> "empty", payload |-> body.payload]
  ELSE IF body.json = "invalid" THEN [ok |-> FALSE, error |-> "syntax", payload |-> body.payload]
  ELSE [ok |-> TRUE, error |-> "none", payload |-> body.payload]

\* The POST handler from the request on: parseRequestBody, then the
\* normalizer and writeEntry; what parseRequestBody throws ends in the catch.
ServerPostRequest(body, now, failed) ==
  LET parsed == parseRequestBody(body)
  IN IF parsed.ok
       THEN ServerPost(parsed.payload, now, failed)
       ELSE /\ server.phase = "listening"
            /\ ~Busy("s1")
            /\ last' = Thrown(Last("post", "s1", "error", "body", 0, "-"), parsed.error)
            /\ server' = ServerTracks(server, last')
            /\ UNCHANGED <<dbRows, dbSeq, dbMeta, legacyFile, store, writing, mcall,
                           committed, hist>>

\* Bodies: no bytes; a few blanks; text that is not JSON; JSON of a complete
\* payload, of a payload without player name, of null; a complete payload in
\* a body of exactly the limit, and in one a byte larger.
PostBodies ==
  {Body(0, TRUE, "invalid", PayloadB), Body(3, TRUE, "invalid", PayloadB),
   Body(20, FALSE, "invalid", PayloadB)}
    \cup {Body(200, FALSE, "value", p) :
            p \in {PayloadB, PayloadAutoDemo, PayloadNoName, [PayloadA EXCEPT !.kind = "null"]}}
    \cup {Body(MAX_REQUEST_BODY_BYTES, FALSE, "value", PayloadB),
          Body(MAX_REQUEST_BODY_BYTES + 1, FALSE, "value", PayloadB)}

InitPost ==
  /\ dbRows = {}
  /\ dbSeq = 0
  /\ dbMeta = NoMeta
  /\ legacyFile = NoFile
  /\ store = [s \in Stores |-> [status |-> "none", cap |-> DEFAULT_MAX_STORED_ENTRIES,
                                 cached |-> FALSE]]
  /\ writing = [s \in Stores |-> NoWrite]
  /\ mcall = [c \in Calls |-> IdleCall]
  /\ last = Last("none", "s1", "ok", "-", 0, "-")
  /\ committed = FALSE
  /\ hist = [s \in Stores |-> "fresh"]
  /\ server = ServerBoot

NextPost ==
  \/ \E cap \in ServerCaps : ServerCreateStore(cap, TRUE)
  \/ ServerMigrate
  \/ MigrateFileExists("c1")
  \/ \E limit \in ServerLimits : ServerGet(limit)
  \/ \E body \in PostBodies, now \in Clock, failed \in BOOLEAN :
       ServerPostRequest(body, now, failed)
  \/ \E failed \in BOOLEAN : WriteEntryTrim("s1", failed)

SpecPost == InitPost /\ [][NextPost]_vars

\* ------------------------------------- the environment and the query
\* The digits a text begins with.
RECURSIVE LeadingDigits(_)
LeadingDigits(t) ==
  IF t = <<>> \/ Head(t) \notin 48..57 THEN <<>>
  ELSE <<Head(t)>> \o LeadingDigits(Tail(t))

\* Number.parseInt(text, 10): leading whitespace, a sign, then the digits up
\* to the first character that is none; NaN when there is no digit.
NumberParseInt(t) ==
  LET u == TrimStart(t)
      signed == u # <<>> /\ Head(u) \in {43, 45}
      digits == LeadingDigits(IF signed THEN Tail(u) ELSE u)
  IN IF digits = <<>> THEN [nan |-> TRUE, n |-> 0]
     ELSE [nan |-> FALSE,
           n |-> IF signed /\ Head(u) = 45 THEN -DigitsValue(digits) ELSE DigitsValue(digits)]

\* A parser that takes 0 for a retention.
parsePositiveIntegerEnvAllowsZero(rawValue, fallback) ==
  IF rawValue.t # "string" THEN fallback
  ELSE LET parsed == NumberParseInt(Trim(rawValue.s))
       IN IF parsed.nan \/ parsed.n < 0 THEN fallback ELSE parsed.n

parsePositiveIntegerEnv(rawValue, fallback) ==
  IF rawValue.t # "string" THEN fallback
  ELSE LET parsed == NumberParseInt(Trim(rawValue.s))
       IN IF parsed.nan \/ parsed.n <= 0 THEN fallback ELSE parsed.n

\* The limit the GET handler makes of the query parameter (null: there is
\* none).
DEFAULT_LIMIT == 10

LimitOfQuery(param) ==
  LET limitQuery == NumberParseInt(IF param.t = "null" THEN <<49, 48>> ELSE param.s)
  IN IF ~limitQuery.nan /\ limitQuery.n > 0 THEN limitQuery.n ELSE DEFAULT_LIMIT

\* createLeaderboardStore with MAX_STORED_ENTRIES as the environment gives it.
ServerCreateStoreFromEnv(rawValue) ==
  ServerCreateStore(parsePositiveIntegerEnv(rawValue, DEFAULT_MAX_STORED_ENTRIES), TRUE)

\* The GET handler from the query on (readEntries takes its limit in halves).
ServerGetQuery(param) == ServerGet(2 * LimitOfQuery(param))

\* LEADERBOARD_RETENTION: unset, "", "abc", "0", "-3", "1", " 2 ", "1.9",
\* "2x".
EnvValues ==
  {JsUndefined, JsString(<<>>), JsString(<<97, 98, 99>>), JsString(<<48>>),
   JsString(<<45, 51>>), JsString(<<49>>), JsString(<<32, 50, 32>>),
   JsString(<<49, 46, 57>>), JsString(<<50, 120>>)}

\* ?limit=: absent, "", "abc", "0", "-1", "1", " 2", "2.5", "3".
QueryValues ==
  {JsNull, JsString(<<>>), JsString(<<97, 98, 99>>), JsString(<<48>>),
   JsString(<<45, 49>>), JsString(<<49>>), JsString(<<32, 50>>),
   JsString(<<50, 46, 53>>), JsString(<<51>>)}

InitEnv ==
  /\ dbRows = {}
  /\ dbSeq = 0
  /\ dbMeta = NoMeta
  /\ legacyFile = NoFile
  /\ store = [s \in Stores |-> [status |-> "none", cap |-> DEFAULT_MAX_STORED_ENTRIES,
                                 cached |-> FALSE]]
  /\ writing = [s \in Stores |-> NoWrite]
  /\ mcall = [c \in Calls |-> IdleCall]
  /\ last = Last("none", "s1", "ok", "-", 0, "-")
  /\ committed = FALSE
  /\ hist = [s \in Stores |-> "fresh"]
  /\ server = ServerBoot

NextEnv ==
  \/ \E rawValue \in EnvValues : ServerCreateStoreFromEnv(rawValue)
  \/ ServerMigrate
  \/ MigrateFileExists("c1")
  \/ \E param \in QueryValues : ServerGetQuery(param)
  \/ \E payload \in {PayloadB, PayloadAutoDemo}, now \in Clock : ServerPost(payload, now, FALSE)
  \/ WriteEntryTrim("s1", FALSE)
  \/ ServerExit

SpecEnv == InitEnv /\ [][NextEnv]_vars

\* ---------------------------------------------------------- properties
Min(a, b) == IF a < b THEN a ELSE b

Stored == Cardinality(dbRows)

\* The flag value that means complete ("1"), as the metadata table holds it.
IsCompleteFlag(meta) == meta.present /\ meta.value = Txt(49)

\* post is what is left of pre when only its n highest-ranked rows are kept.
IsTopRanked(post, pre, n) ==
  /\ post \subseteq pre
  /\ Cardinality(post) = Min(MathMax0(n), Cardinality(pre))
  /\ \A r \in post, q \in pre \ post : RankedBefore(r, q)

\* The rows a transaction adds for the entries it inserts, before the trim.
NewRows(entries, seq) == {insertEntry(entries[i], seq + i) : i \in 1..Len(entries)}

\* This step is the return of a writeEntry call of store s.
WriteReturns(s) ==
  writing[s].active /\ ~writing'[s].active /\ last'.outcome = "ok"

\* This step ends the transaction of call c: committed, or rolled back.
MigrateCommits(c) ==
  mcall[c].pc = "txn" /\ mcall'[c].pc = "idle" /\ last'.outcome = "ok"
MigrateRollsBack(c) ==
  mcall[c].pc = "txn" /\ mcall'[c].pc = "idle" /\ last'.outcome = "error"

\* This step belongs to a migrateFromLegacyJson call of store s.
MigrateStepOf(s) == last'.op = "migrate" /\ last'.store = s

DbUnchanged == dbRows' = dbRows /\ dbSeq' = dbSeq /\ dbMeta' = dbMeta

RetentionAfter(pre, post, cap) ==
  /\ Cardinality(post) <= cap
  /\ IsTopRanked(post, pre, cap)

\* C1 as stated: for every cap a store can be opened with, when writeEntry
\* returns and when a migration commits, at most cap rows are stored and they
\* are the cap highest-ranked of the rows present just before the trim.
C1_RetentionForEveryCap ==
  [][ /\ \A s \in Stores :
           WriteReturns(s) => RetentionAfter(dbRows, dbRows', store[s].cap)
      /\ \A c \in Calls :
           MigrateCommits(c) =>
             RetentionAfter(dbRows \cup NewRows(mcall[c].toInsert, dbSeq), dbRows',
                            store[mcall[c].store].cap) ]_vars

\* C1, amended: the same for every cap that is a non-negative integer.
C1_Retention ==
  [][ /\ \A s \in Stores :
           (WriteReturns(s) /\ store[s].cap >= 0) =>
             RetentionAfter(dbRows, dbRows', store[s].cap)
      /\ \A c \in Calls :
           (MigrateCommits(c) /\ store[mcall[c].store].cap >= 0) =>
             RetentionAfter(dbRows \cup NewRows(mcall[c].toInsert, dbSeq), dbRows',
                            store[mcall[c].store].cap) ]_vars

\* A migration has inserted two rows under cap 1 and the trim has left one.
C1_Witness ==
  /\ last.op = "migrate" /\ last.path = "imported" /\ last.ret = 2
  /\ store[last.store].cap = 1
  /\ Stored = 1

\* C2: once a migrateFromLegacyJson call has succeeded on a store, every later
\* call on that store returns 0 at once and changes neither the rows nor their
\* number.
C2_MigrationIdempotent ==
  [][ \A s \in Stores :
        (hist[s] = "migrated" /\ MigrateStepOf(s)) =>
          /\ last'.outcome = "ok"
          /\ last'.ret = 0
          /\ DbUnchanged ]_vars

\* A second call has returned 0 on the store that migrated, the legacy file
\* still in place.
C2_Witness ==
  /\ last.op = "migrate" /\ last.outcome = "ok" /\ last.ret = 0
  /\ last.after = "migrated"
  /\ legacyFile.exists
  /\ dbRows # {}


\* What the normalizer makes of entry i of the legacy array call c has read.
Parsed(c, i) == parseLeaderboardPayloadEntry(mcall[c].legacy[i], TRUE, mcall[c].now)

IdentitiesOf(rows) == {createEntryIdentity(mapRowToEntry(r)) : r \in rows}

\* C3 as stated: with N entries in the legacy file (counting those the
\* normalizer accepts), M of them equal to an already-persisted row on all
\* eleven fields, a successful migration inserts exactly N - M rows.
C3_InsertsNMinusM ==
  [][ \A c \in Calls :
        MigrateCommits(c) =>
          LET accepted == {i \in 1..Len(mcall[c].legacy) : Parsed(c, i).ok}
              persisted == {mapRowToEntry(r) : r \in mcall[c].scanned}
              N == Cardinality(accepted)
              M == Cardinality({i \in accepted : Parsed(c, i).entry \in persisted})
          IN dbSeq' - dbSeq = N - M ]_vars

\* C3, amended: a successful migration inserts exactly as many rows as there
\* are distinct identity keys among the entries the normalizer accepts that are
\* not the identity key of an already-persisted row.
C3_DedupCount ==
  [][ \A c \in Calls :
        MigrateCommits(c) =>
          LET N == Len(mcall[c].legacy)
              acceptedKeys ==
                {createEntryIdentity(Parsed(c, i).entry) : i \in {j \in 1..N : Parsed(c, j).ok}}
          IN /\ dbSeq' - dbSeq = Cardinality(acceptedKeys \ IdentitiesOf(mcall[c].scanned))
             /\ last'.ret = dbSeq' - dbSeq ]_vars

\* Two distinct accepted legacy entries, one of them already stored by a
\* writeEntry call: the migration has inserted the other one only.
C3_Witness ==
  /\ last.op = "migrate" /\ last.path = "imported" /\ last.ret = 1
  /\ dbSeq = 2
  /\ legacyFile.exists
  /\ Len(NormalizeEntries(legacyFile.doc.entries, Txt(51))) = 2
  /\ legacyFile.doc.entries[1] # legacyFile.doc.entries[2]

\* C4: when the migration transaction fails, the rows, the id counter and the
\* persisted flag are as before, the cache is still false, and the next call
\* on the store goes through the migration again.
C4_RollbackAtomic ==
  [][ /\ \A c \in Calls :
           MigrateRollsBack(c) =>
             /\ DbUnchanged
             /\ store' = store
             /\ ~store'[mcall[c].store].cached
      /\ \A s \in Stores :
           (hist[s] = "rolledBack" /\ MigrateStepOf(s)) => last'.path # "cached" ]_vars

\* After a rolled-back transaction a later call has imported the entries.
C4_Witness ==
  /\ last.op = "migrate" /\ last.path = "imported" /\ last.ret >= 1
  /\ last.after = "rolledBack"
  /\ IsCompleteFlag(dbMeta)

\* C5: a call that finds no legacy file returns 0, changes no row, leaves the
\* flag incomplete and the cache false; the next call is not skipped, and once
\* the file exists it reads it, imports and marks the flag complete.
C5_MissingFileRetry ==
  [][ /\ \A c \in Calls :
           LET s == mcall[c].store
               probes == mcall[c].pc = "access" /\ mcall'[c] # mcall[c]
           IN /\ (probes /\ ~legacyFile.exists) =>
                   /\ mcall'[c].pc = "idle"
                   /\ last'.outcome = "ok" /\ last'.ret = 0
                   /\ DbUnchanged
                   /\ ~IsCompleteFlag(dbMeta')
                   /\ ~store'[s].cached
              /\ (probes /\ legacyFile.exists) => mcall'[c].pc = "readFile"
              /\ (hist[s] = "missed" /\ MigrateCommits(c)) =>
                   /\ IsCompleteFlag(dbMeta')
                   /\ store'[s].cached
                   /\ dbSeq' = dbSeq + Len(mcall[c].toInsert)
      /\ \A s \in Stores :
           (hist[s] = "missed" /\ MigrateStepOf(s)) => last'.path # "cached" ]_vars

\* A call returned 0 for want of the file, and the next call imported.
C5_Witness ==
  /\ last.op = "migrate" /\ last.path = "imported" /\ last.ret >= 1
  /\ last.after = "missed"
  /\ IsCompleteFlag(dbMeta)


\* C6 as stated, in what it says of the rows, for stores opened with a
\* non-negative cap: a call made on a store whose cache is not complete while
\* the database holds the complete flag inserts nothing and, when it returns,
\* returns 0 with the flag cached.
C6_PersistedFlagConsulted ==
  [][ \A c \in Calls :
        (/\ mcall[c].pc # "idle" /\ mcall[c].flagAtCall /\ mcall'[c].pc = "idle"
         /\ \A s \in Stores : store[s].cap >= 0) =>
          /\ dbSeq' = dbSeq
          /\ dbRows' = dbRows
          /\ last'.outcome = "ok" => (last'.ret = 0 /\ store'[mcall[c].store].cached) ]_vars

\* C7: the persisted flag changes only from incomplete to complete, only in
\* the step that commits a migration transaction together with its inserts and
\* its trim; it is complete only if such a transaction has committed, and once
\* complete it stays complete.
C7_FlagLifecycle ==
  [][ /\ dbMeta' # dbMeta =>
           /\ ~IsCompleteFlag(dbMeta)
           /\ IsCompleteFlag(dbMeta')
           /\ \E c \in Calls :
                /\ MigrateCommits(c)
                /\ dbSeq' = dbSeq + Len(mcall[c].toInsert)
                /\ IsTopRanked(dbRows', dbRows \cup NewRows(mcall[c].toInsert, dbSeq),
                               store[mcall[c].store].cap)
      /\ IsCompleteFlag(dbMeta) => IsCompleteFlag(dbMeta')
      /\ IsCompleteFlag(dbMeta') => committed' ]_vars

\* The flag is complete and the transaction that set it inserted rows.
C7_Witness ==
  /\ IsCompleteFlag(dbMeta)
  /\ last.op = "migrate" /\ last.path = "imported" /\ last.ret >= 1
  /\ dbRows # {}

\* C8: once a migration has committed on the database file, a store constructed
\* on it starts with the migration cached as complete, and every
\* migrateFromLegacyJson call on that store returns 0 at once, without reading
\* the legacy file and without changing the database.
C8_OneImportPerDatabase ==
  [][ \A s \in Stores :
        /\ (committed /\ last'.op = "open" /\ last'.store = s) => store'[s].cached
        /\ (hist[s] = "openedAfter" /\ MigrateStepOf(s)) =>
             /\ last'.outcome = "ok"
             /\ last'.ret = 0
             /\ DbUnchanged ]_vars

\* A store opened after the commit has returned 0 although the legacy file
\* holds an acceptable entry that is not among the rows.
C8_Witness ==
  /\ last.op = "migrate" /\ last.outcome = "ok" /\ last.ret = 0
  /\ last.after = "openedAfter"
  /\ legacyFile.exists
  /\ \E i \in 1..Len(legacyFile.doc.entries) :
       LET parsed == parseLeaderboardPayloadEntry(legacyFile.doc.entries[i], TRUE, Txt(51))
       IN parsed.ok /\ createEntryIdentity(parsed.entry) \notin IdentitiesOf(dbRows)

\* The positions of entries (a sequence) whose identity key is neither in keys
\* nor the key of an earlier position.
FirstOccurrences(entries, keys) ==
  {i \in 1..Len(entries) :
     /\ createEntryIdentity(entries[i]) \notin keys
     /\ \A j \in 1..(i - 1) : createEntryIdentity(entries[j]) # createEntryIdentity(entries[i])}

\* The k-th smallest member of a set of positions.
NthOf(K, k) == CHOOSE i \in K : Cardinality({j \in K : j < i}) = k - 1

\* C9: a legacy array that mixes entries the normalizer accepts and entries it
\* rejects does not make the call fail; the rejected entries are neither
\* inserted nor counted, and every accepted entry that is no duplicate (of a
\* stored row or of an earlier accepted entry) is inserted, wherever the
\* rejected ones stand.
C9_MalformedTolerance ==
  [][ \A c \in Calls :
        /\ (mcall[c].pc = "readFile" /\ mcall'[c] # mcall[c] /\ legacyFile.exists
              /\ legacyFile.doc.json = "object" /\ store[mcall[c].store].status = "open")
             => mcall'[c].pc = "txn"
        /\ MigrateCommits(c) =>
             LET N == Len(mcall[c].legacy)
                 keys == IdentitiesOf(mcall[c].scanned)
                 key(i) == createEntryIdentity(Parsed(c, i).entry)
                 fresh == {i \in 1..N :
                             /\ Parsed(c, i).ok
                             /\ key(i) \notin keys
                             /\ \A j \in 1..(i - 1) : Parsed(c, j).ok => key(j) # key(i)}
             IN /\ last'.ret = Cardinality(fresh)
                /\ dbSeq' = dbSeq + Cardinality(fresh)
                /\ {mcall[c].toInsert[k] : k \in 1..Len(mcall[c].toInsert)}
                     = {Parsed(c, i).entry : i \in fresh}
                /\ IsTopRanked(dbRows', dbRows \cup NewRows(mcall[c].toInsert, dbSeq),
                               store[mcall[c].store].cap) ]_vars

\* A migration of an array whose first entry is rejected and whose second is
\* accepted has inserted that one entry, which is stored.
C9_Witness ==
  /\ last.op = "migrate" /\ last.path = "imported" /\ last.ret = 1
  /\ legacyFile.exists
  /\ Len(legacyFile.doc.entries) = 2
  /\ ~parseLeaderboardPayloadEntry(legacyFile.doc.entries[1], TRUE, Txt(51)).ok
  /\ parseLeaderboardPayloadEntry(legacyFile.doc.entries[2], TRUE, Txt(51)).ok
  /\ dbSeq = 1
  /\ Stored = 1

\* C10: of the normalized legacy entries, taken in file order, exactly those
\* are put on the insert list whose identity key is neither the key of a row
\* stored when the scan ran nor the key of an earlier entry of the batch; the
\* transaction inserts that list.
C10_DedupInOrder ==
  [][ \A c \in Calls :
        /\ (mcall[c].pc = "readFile" /\ mcall'[c].pc = "txn") =>
             LET normalized == NormalizeEntries(mcall'[c].legacy, mcall'[c].now)
                 K == FirstOccurrences(normalized, IdentitiesOf(dbRows))
             IN /\ Len(mcall'[c].toInsert) = Cardinality(K)
                /\ \A k \in 1..Cardinality(K) : mcall'[c].toInsert[k] = normalized[NthOf(K, k)]
        /\ MigrateCommits(c) =>
             /\ dbSeq' = dbSeq + Len(mcall[c].toInsert)
             /\ IsTopRanked(dbRows', dbRows \cup NewRows(mcall[c].toInsert, dbSeq),
                            store[mcall[c].store].cap) ]_vars

\* A migration of two identical accepted entries has inserted one row.
C10_Witness ==
  /\ last.op = "migrate" /\ last.path = "imported" /\ last.ret = 1
  /\ legacyFile.exists
  /\ Len(legacyFile.doc.entries) = 2
  /\ legacyFile.doc.entries[1] = legacyFile.doc.entries[2]
  /\ parseLeaderboardPayloadEntry(legacyFile.doc.entries[1], TRUE, Txt(51)).ok
  /\ dbSeq = 1
  /\ dbRows = {insertEntry(parseLeaderboardPayloadEntry(legacyFile.doc.entries[1], TRUE, Txt(51)).entry, 1)}


\* C18 as stated: every failure of the migration transaction, at an insert, at
\* the trim, at the flag update, at BEGIN or at COMMIT, reaches the caller as a
\* new error with the migration context and the original as its cause, and a
\* failure of writeEntry reaches the caller as the storage engine raised it.
C18_TransactionErrorsWrapped ==
  [][ /\ \A c \in Calls : MigrateRollsBack(c) => last'.error = "wrapped"
      /\ (last'.op = "writeEntry" /\ last'.outcome = "error") => last'.error = "engine" ]_vars


\* C13 as stated, for stores opened with a non-negative cap: in every committed
\* state of the database that a store is open on and not in the middle of an
\* operation, the number of stored rows is at most that store's cap.
C13_TableNeverExceedsCap ==
  \A s \in Stores :
    (store[s].status = "open" /\ store[s].cap >= 0 /\ ~Busy(s)) => Stored <= store[s].cap


\* C15: a migration transaction that runs after another store has committed
\* the migration (the flag is complete) is not held back by any lock or
\* re-check: unless the storage engine fails it, it commits, inserts every
\* entry its own scan had kept, duplicates of the rows committed since
\* included, and returns their number.
C15_DoubleMigrationRace ==
  [][ \A c \in Calls :
        (mcall[c].pc = "txn" /\ mcall'[c].pc = "idle" /\ IsCompleteFlag(dbMeta)) =>
          \/ last'.outcome = "error" /\ DbUnchanged
          \/ /\ last'.outcome = "ok"
             /\ last'.ret = Len(mcall[c].toInsert)
             /\ Len(mcall[c].toInsert) =
                  Cardinality(FirstOccurrences(NormalizeEntries(mcall[c].legacy, mcall[c].now),
                                               IdentitiesOf(mcall[c].scanned)))
             /\ dbSeq' = dbSeq + Len(mcall[c].toInsert)
             /\ IsTopRanked(dbRows', dbRows \cup NewRows(mcall[c].toInsert, dbSeq),
                            store[mcall[c].store].cap) ]_vars

\* Both stores have migrated and the table holds the same legacy entry twice.
C15_Witness ==
  /\ hist["s1"] = "migrated" /\ hist["s2"] = "migrated"
  /\ \E r1, r2 \in dbRows :
       /\ r1.id # r2.id
       /\ createEntryIdentity(mapRowToEntry(r1)) = createEntryIdentity(mapRowToEntry(r2))


\* C11 as stated, read in the way most favourable to it (a negative limit asks
\* for no row): readEntries(limit) never returns more rows than limit and
\* never more than are stored.
C11_ReadBound ==
  (last.op = "readEntries" /\ last.outcome = "ok") =>
    /\ 2 * Len(last.read) <= MathMax0(last.limit)
    /\ Len(last.read) <= Stored

\* The instant a creation timestamp denotes, in the model's units: a digit is
\* that hour in UTC, digit "+" digit is the hour of a zone so many hours ahead
\* of UTC.
InstantOf(t) ==
  IF Len(t) = 3 /\ t[2] = 43 THEN (t[1] - 48) - (t[3] - 48) ELSE t[1] - 48

\* C12 as stated, for limits that are not negative: readEntries(limit) returns
\* the first min(limit, row count) rows in the order created_at descending, id
\* descending, and in what it returns no entry comes before one created later.
C12_ReadOrder ==
  (last.op = "readEntries" /\ last.outcome = "ok" /\ last.limit >= 0) =>
    /\ Len(last.read) = Min(last.limit \div 2, Stored)
    /\ \A i \in 1..Len(last.read) :
         \E r \in dbRows : RowRank(r, dbRows) = i /\ last.read[i] = mapRowToEntry(r)
    /\ \A i, j \in 1..Len(last.read) :
         i < j => InstantOf(last.read[i].createdAt) >= InstantOf(last.read[j].createdAt)


\* C14: a stored row disappears only in the trim step of a writeEntry call or
\* in a migration transaction that commits; a row that stays keeps every
\* field; readEntries, getMigrationState, the diagnostic accessors, close, and
\* every migrateFromLegacyJson step that returns 0 early or fails leave the
\* set of rows as it was.
C14_OnlyTrimDeletes ==
  [][ /\ ~(dbRows \subseteq dbRows') =>
           \/ last'.op = "writeEntry" /\ last'.path = "trim" /\ last'.outcome = "ok"
           \/ \E c \in Calls : MigrateCommits(c)
      /\ \A r \in dbRows, q \in dbRows' : r.id = q.id => r = q
      /\ last'.op \in {"readEntries", "getMigrationState", "close"} \cup Accessors =>
           dbRows' = dbRows
      /\ (/\ last'.op = "migrate"
          /\ \/ last'.outcome = "error"
             \/ last'.outcome = "ok" /\ last'.path \in {"cached", "missing"}) =>
           /\ dbRows' = dbRows
           /\ (last'.outcome = "ok" => last'.ret = 0) ]_vars

\* A writeEntry call has returned after its trim removed a row.
C14_Witness ==
  /\ last.op = "writeEntry" /\ last.outcome = "ok"
  /\ dbSeq >= 2
  /\ Stored = 1
  /\ store[last.store].cap = 1


\* This step is call c going on from the resolved readFile.
ReadsFile(c) == mcall[c].pc = "readFile" /\ mcall'[c] # mcall[c]

\* C16 as stated: whatever JSON value the legacy file holds, the step that
\* reads it does not throw, and a document without an array under "entries"
\* gives an empty list of entries.
C16_ShapeTolerance ==
  [][ \A c \in Calls :
        (/\ ReadsFile(c)
         /\ legacyFile.exists
         /\ legacyFile.doc.json # "invalid"
         /\ store[mcall[c].store].status = "open") =>
          /\ mcall'[c].pc = "txn"
          /\ ~(legacyFile.doc.json = "object" /\ legacyFile.doc.hasEntriesArray) =>
               (mcall'[c].legacy = <<>> /\ mcall'[c].toInsert = <<>>) ]_vars

\* C17: a legacy file that exists and yields nothing to insert (no array under
\* "entries", or every entry rejected or already stored) takes the call to a
\* transaction with an empty batch; that transaction returns 0, inserts
\* nothing, leaves the rows as the trim leaves them, sets the flag and the
\* cache; every later call on the store returns 0 and changes nothing.
C17_ZeroInsertionCompletes ==
  [][ /\ \A c \in Calls :
           LET s == mcall[c].store
               entries == LegacyEntriesOf(legacyFile.doc)
               parsed(i) == parseLeaderboardPayloadEntry(entries[i], TRUE, mcall'[c].now)
           IN /\ (/\ ReadsFile(c)
                  /\ legacyFile.exists
                  /\ legacyFile.doc.json \in {"object", "scalar"}
                  /\ store[s].status = "open"
                  /\ \A i \in 1..Len(entries) :
                       parsed(i).ok =>
                         createEntryIdentity(parsed(i).entry) \in IdentitiesOf(dbRows)) =>
                   (mcall'[c].pc = "txn" /\ mcall'[c].toInsert = <<>>)
              /\ (MigrateCommits(c) /\ mcall[c].toInsert = <<>>) =>
                   /\ last'.ret = 0
                   /\ dbSeq' = dbSeq
                   /\ IsTopRanked(dbRows', dbRows, store[s].cap)
                   /\ IsCompleteFlag(dbMeta')
                   /\ store'[s].cached
      /\ \A s \in Stores :
           (hist[s] = "migrated" /\ MigrateStepOf(s)) =>
             /\ last'.outcome = "ok" /\ last'.ret = 0
             /\ DbUnchanged ]_vars

\* Nothing was ever inserted, the migration is complete, and a call has
\* returned 0 although the legacy file now holds an entry that would be
\* accepted.
C17_Witness ==
  /\ last.op = "migrate" /\ last.outcome = "ok" /\ last.ret = 0
  /\ last.path = "cached" /\ last.after = "migrated"
  /\ dbSeq = 0
  /\ IsCompleteFlag(dbMeta)
  /\ legacyFile.exists
  /\ legacyFile.doc.json = "object" /\ legacyFile.doc.hasEntriesArray
  /\ Len(legacyFile.doc.entries) = 1
  /\ parseLeaderboardPayloadEntry(legacyFile.doc.entries[1], TRUE, Txt(51)).ok


\* The journal mode is wal, in any case of the letters.
IsWalMode(pragma) ==
  /\ ~pragma.throws
  /\ pragma.value.t = "string"
  /\ Len(pragma.value.s) = 3
  /\ pragma.value.s[1] \in {119, 87}
  /\ pragma.value.s[2] \in {97, 65}
  /\ pragma.value.s[3] \in {108, 76}

\* C19: with options that pass the checks and a database that opens, the
\* constructor completes whatever the journal_mode pragma returns or throws,
\* the store it makes is the same for every pragma outcome, and it emits one
\* warning when the mode is not wal or the pragma throws and none otherwise.
C19_WalNeverFatal ==
  [][ \A s \in {last'.store}, o \in UsableOptions, pragma \in Pragmas :
        (last'.op = "open" /\ Constructor(s, o, TRUE, pragma)) =>
          /\ last'.outcome = "ok" /\ last'.error = "none"
          /\ store'[s] = [status |-> "open",
                          cap |-> IF o.hasMax THEN o.maxStoredEntries
                                              ELSE DEFAULT_MAX_STORED_ENTRIES,
                          cached |-> IsCompleteFlag(dbMeta)]
          /\ DbUnchanged
          /\ last'.warnings = (IF IsWalMode(pragma) THEN 0 ELSE 1) ]_vars

\* A store that was opened with one warning on a database that holds a row.
C19_Witness ==
  /\ last.op = "open" /\ last.outcome = "ok" /\ last.warnings = 1
  /\ store[last.store].status = "open"
  /\ dbRows # {}

\* The options fail the checks of the constructor.
IsInvalidOptions(o) ==
  \/ o.kind # "object"
  \/ o.databasePath.t # "string"
  \/ \A i \in 1..Len(o.databasePath.s) : IsWhitespace(o.databasePath.s[i])

\* C20: a constructor call with options that are missing or no object, or
\* with a databasePath that is no string, empty or whitespace only, throws
\* before the database is opened; with good options and a file that cannot be
\* opened it throws a wrapped error; in both cases the store is not open
\* afterwards and nothing has changed.
C20_OpenErrorsFatal ==
  [][ \A s \in {last'.store}, o \in InvalidOptions \cup UsableOptions, opens \in BOOLEAN :
        (last'.op = "open" /\ Constructor(s, o, opens, WalAchieved)) =>
          /\ IsInvalidOptions(o) =>
               /\ last'.outcome = "error" /\ last'.error = "argument"
               /\ ~last'.opened
               /\ store' = store /\ store'[s].status # "open"
               /\ DbUnchanged
          /\ (~IsInvalidOptions(o) /\ ~opens) =>
               /\ last'.outcome = "error" /\ last'.error = "wrapped"
               /\ store' = store /\ store'[s].status # "open"
               /\ DbUnchanged ]_vars

\* A constructor call has thrown on its arguments after the store had been
\* open and closed before.
C20_Witness ==
  /\ last.op = "open" /\ last.outcome = "error" /\ last.error = "argument"
  /\ ~last.opened
  /\ store[last.store].status = "closed"
  /\ dbRows # {}


\* C21: a constructor call that succeeds on a database file that holds the
\* schema, rows and a migration flag leaves every row, the id counter and the
\* flag as they are, and the store's cache shows what the flag says; as this
\* holds of every such step, it holds of any number of successive opens.
C21_ReopenChangesNothing ==
  [][ \A s \in Stores :
        (last'.op = "open" /\ last'.store = s /\ last'.outcome = "ok") =>
          /\ DbUnchanged
          /\ store'[s].status = "open"
          /\ store'[s].cached = IsCompleteFlag(dbMeta) ]_vars

\* A store has been opened on a database that holds a row and the complete
\* flag, after an earlier store object had migrated into it.
C21_Witness ==
  /\ last.op = "open" /\ last.outcome = "ok"
  /\ hist[last.store] = "openedAfter"
  /\ dbRows # {}
  /\ IsCompleteFlag(dbMeta)
  /\ store[last.store].cached


\* C22: in the server process, whatever error the migration call raises (the
\* file cannot be read or parsed, the transaction fails), the process logs
\* the warning and goes on to listen, the database is as it was with the flag
\* not complete; a GET is then answered 200 with the stored rows, up to the
\* limit; and a process that starts on a flag that is not complete goes on to
\* look for the legacy file again.
C22_FailedMigrationNotFatal ==
  [][ /\ (server.phase \in {"migrate", "migrating"}
            /\ last'.op = "migrate" /\ last'.outcome = "error") =>
           /\ server'.phase = "listening"
           /\ server'.log = "skipped"
           /\ DbUnchanged
           /\ ~IsCompleteFlag(dbMeta')
      /\ (server.phase = "listening" /\ last'.op = "readEntries") =>
           /\ last'.outcome = "ok"
           /\ server'.status = 200
           /\ 2 * Len(last'.read) = Min(last'.limit, 2 * Cardinality(dbRows))
           /\ \A i \in 1..Len(last'.read) : \E r \in dbRows : mapRowToEntry(r) = last'.read[i]
      /\ (server.phase = "migrate" /\ last'.op = "migrate" /\ ~IsCompleteFlag(dbMeta)) =>
           /\ last'.outcome = "pending"
           /\ mcall'["c1"].pc = "access" ]_vars

\* The migration of this process has failed and was logged, the flag is not
\* complete, and a GET has been answered with a row that was stored before.
C22_Witness ==
  /\ server.phase = "listening"
  /\ server.log = "skipped"
  /\ server.status = 200
  /\ last.op = "readEntries" /\ last.outcome = "ok"
  /\ Len(last.read) >= 1
  /\ ~IsCompleteFlag(dbMeta)

\* C23: the server process calls migrateFromLegacyJson once; when it listens,
\* that call has been made and has ended; a readEntries or writeEntry of a
\* handler runs only with no migration call in flight, and a step of the
\* migration never falls between the two statements of a writeEntry.
C23_MigrationPrecedesTraffic ==
  [][ /\ server'.migrateCalls <= 1
      /\ server'.phase = "listening" =>
           (server'.migrateCalls = 1 /\ mcall'["c1"].pc = "idle")
      /\ (server.phase # "none" /\ last'.op \in {"readEntries", "writeEntry", "post"}) =>
           /\ server.phase = "listening"
           /\ server.migrateCalls = 1
           /\ mcall["c1"].pc = "idle" /\ mcall'["c1"].pc = "idle"
      /\ (server.phase # "none" /\ last'.op = "migrate") =>
           /\ server.phase \in {"migrate", "migrating"}
           /\ ~writing["s1"].active ]_vars

\* The one migration call of the process has imported rows, and a POST has
\* been stored after it.
C23_Witness ==
  /\ server.phase = "listening"
  /\ server.migrateCalls = 1
  /\ server.log = "migrated"
  /\ server.status = 201
  /\ last.op = "writeEntry" /\ last.outcome = "ok"


\* The value is no string, or a string of nothing but whitespace.
IsBlank(v) == v.t # "string" \/ \A i \in 1..Len(v.s) : IsWhitespace(v.s[i])

\* The payload lacks a string the normalizer requires, or its timeMs or
\* attempts is no finite number.
IsDeficient(payload) ==
  \/ payload.kind # "object"
  \/ \E f \in StringFields \ {"emojiSetLabel"} : IsBlank(payload[f])
  \/ payload.timeMs.t # "number"
  \/ payload.attempts.t # "number"

\* The four numbers of the row are at least 0 and its five strings are not
\* empty.
IsWellFormedRow(r) ==
  /\ r.time_ms >= 0 /\ r.attempts >= 0 /\ r.score_multiplier >= 0 /\ r.score_value >= 0
  /\ r.player_name # <<>> /\ r.difficulty_id # <<>> /\ r.difficulty_label # <<>>
  /\ r.emoji_set_id # <<>> /\ r.emoji_set_label # <<>>

\* C24: every row that the POST handler or the migration of the server has
\* stored has timeMs, attempts, scoreMultiplier and scoreValue of at least 0
\* and non-empty playerName, difficultyId, difficultyLabel, emojiSetId and
\* emojiSetLabel; a legacy entry that lacks a required string (playerName,
\* difficultyId, difficultyLabel, emojiSetId) or a finite timeMs or attempts
\* is left out of the batch, and a POST of such a payload is answered 400 and
\* changes nothing.
C24_FieldInvariant ==
  [][ /\ \A r \in dbRows' : IsWellFormedRow(r)
      /\ \A c \in Calls :
           (ReadsFile(c) /\ mcall'[c].pc = "txn") =>
             /\ Len(mcall'[c].toInsert)
                  <= Cardinality({i \in 1..Len(mcall'[c].legacy) :
                                    ~IsDeficient(mcall'[c].legacy[i])})
             /\ \A i \in 1..Len(mcall'[c].toInsert) :
                  IsWellFormedRow(insertEntry(mcall'[c].toInsert[i], 1))
      /\ \A payload \in FieldPayloads, now \in Clock :
           (last'.op \in {"post", "writeEntry"} /\ IsDeficient(payload)
              /\ FirstPost(payload, now)) =>
             /\ last'.outcome = "error" /\ last'.error = "argument"
             /\ server'.status = 400
             /\ DbUnchanged /\ ~writing'["s1"].active ]_vars

\* The table holds a row whose timeMs, scoreMultiplier or scoreValue was
\* negative in the payload and is 0 in the row.
C24_Witness ==
  \E r \in dbRows :
    /\ r.time_ms = 0 \/ r.score_multiplier = 0 \/ r.score_value = 0
    /\ IsWellFormedRow(r)


\* The text denotes an instant, in the model's units: a digit, or a digit,
\* "+" and a digit (see InstantOf).
IsInstant(t) ==
  \/ Len(t) = 1 /\ t[1] \in 48..57
  \/ Len(t) = 3 /\ t[1] \in 48..57 /\ t[2] = 43 /\ t[3] \in 48..57

\* C25 as stated: the created_at of every row stored by the POST handler or
\* by the migration of the server denotes a valid instant.
C25_TimestampsValid ==
  \A r \in dbRows : IsInstant(r.created_at)

\* C26: the migration calls the normalizer with allowCreatedAt, so a row it
\* stores for a legacy entry whose createdAt is a string that is not blank has
\* exactly that createdAt, trimmed; a row for an entry without one has the
\* time the normalizer read from the clock during the call.
C26_TimestampPreserved ==
  [][ \A c \in Calls :
        MigrateCommits(c) =>
          /\ Len(mcall[c].toInsert)
               = Cardinality({i \in 1..Len(mcall[c].legacy) : ~IsDeficient(mcall[c].legacy[i])})
          /\ \A r \in dbRows' \ dbRows :
               \E i \in 1..Len(mcall[c].legacy) :
                 LET raw == mcall[c].legacy[i]
                 IN /\ ~IsDeficient(raw)
                    /\ r.player_name = Trim(raw.playerName.s)
                    /\ r.created_at = IF IsBlank(raw.createdAt) THEN mcall[c].now
                                      ELSE Trim(raw.createdAt.s) ]_vars

\* A migrated row carries the createdAt of its legacy entry, which had
\* whitespace around it and differs from the time of the call.
C26_Witness ==
  /\ last.op = "migrate" /\ last.outcome = "ok" /\ last.ret = 1
  /\ legacyFile.doc.entries[1].createdAt = JsString(<<32, 50>>)
  /\ \E r \in dbRows : r.created_at = Txt(50)


\* C27: a migration that commits returns the length of the batch, which is
\* the number of rows the transaction inserted (ids handed out) and the number
\* of accepted legacy entries whose identity key is neither that of a row
\* scanned nor that of an earlier accepted entry; the count is taken before
\* the trim, so it can exceed the rows that stay. A call that returns at the
\* cache check or for want of the file returns 0 and changes nothing.
C27_ReturnValue ==
  [][ /\ \A c \in Calls :
           MigrateCommits(c) =>
             LET accepted == {i \in 1..Len(mcall[c].legacy) : Parsed(c, i).ok}
                 key(i) == createEntryIdentity(Parsed(c, i).entry)
                 fresh == {i \in accepted :
                             /\ key(i) \notin IdentitiesOf(mcall[c].scanned)
                             /\ \A j \in accepted : j < i => key(j) # key(i)}
             IN /\ last'.ret = Len(mcall[c].toInsert)
                /\ last'.ret = dbSeq' - dbSeq
                /\ last'.ret = Cardinality(fresh)
                /\ last'.ret >= Cardinality(dbRows' \ dbRows)
      /\ \A c \in Calls :
           (mcall[c].pc = "access" /\ mcall'[c].pc = "idle") =>
             /\ ~legacyFile.exists
             /\ last'.outcome = "ok" /\ last'.ret = 0
             /\ DbUnchanged
      /\ \A s \in Stores :
           (MigrateStepOf(s) /\ store[s].cached /\ mcall' = mcall) =>
             /\ last'.outcome = "ok" /\ last'.ret = 0
             /\ DbUnchanged ]_vars

\* A migration has returned 2 and the trim of the same transaction has left
\* fewer than two rows.
C27_Witness ==
  /\ last.op = "migrate" /\ last.path = "imported" /\ last.ret = 2
  /\ Stored < 2
  /\ dbSeq = 2


\* C28: a migration call that fails leaves rows, id counter and flag as they
\* were, so any number of failed calls leaves the database in its initial
\* state; the call that then succeeds stores what a single call on that state
\* stores: the rows scanned and one new row for each accepted legacy entry
\* whose identity key is new, trimmed to the cap; no row it adds equals
\* another stored row on all eleven fields.
C28_RetryNoDuplicates ==
  [][ \A c \in Calls :
        LET s == mcall[c].store
            accepted == {i \in 1..Len(mcall[c].legacy) : Parsed(c, i).ok}
            key(i) == createEntryIdentity(Parsed(c, i).entry)
            fresh == {i \in accepted :
                        /\ key(i) \notin IdentitiesOf(dbRows)
                        /\ \A j \in accepted : j < i => key(j) # key(i)}
            added == {insertEntry(Parsed(c, i).entry,
                                  dbSeq + Cardinality({j \in fresh : j <= i})) : i \in fresh}
        IN /\ (mcall[c].pc # "idle" /\ mcall'[c].pc = "idle" /\ last'.outcome = "error") =>
                DbUnchanged
           /\ (MigrateCommits(c) /\ hist[s] \in {"failed", "rolledBack"}) =>
                /\ IsTopRanked(dbRows', dbRows \cup added, store[s].cap)
                /\ dbSeq' = dbSeq + Cardinality(fresh)
                /\ \A r \in dbRows' \ dbRows, q \in dbRows' :
                     q # r => mapRowToEntry(q) # mapRowToEntry(r) ]_vars

\* After a failed call a second call has succeeded on a legacy file of two
\* distinct entries, one of them stored before by writeEntry: it has inserted
\* the other one only.
C28_Witness ==
  /\ last.op = "migrate" /\ last.path = "imported" /\ last.ret = 1
  /\ last.after \in {"failed", "rolledBack"}
  /\ dbSeq = 2
  /\ legacyFile.exists
  /\ Len(NormalizeEntries(legacyFile.doc.entries, Txt(51))) = 2
  /\ Stored >= 1


\* C29 as stated: two entries of the legacy file have the same identity key
\* exactly when they agree on all eleven fields, also when their strings hold
\* the separator '|'; so a migration into an empty table with room for all
\* stores every distinct entry of the file.
C29_IdentityInjective ==
  (last.op = "migrate" /\ last.path = "imported" /\ last.outcome = "ok") =>
    LET normalizedEntries == NormalizeEntries(legacyFile.doc.entries, Txt(51))
        entries == {normalizedEntries[i] : i \in 1..Len(normalizedEntries)}
    IN /\ \A e \in entries, f \in entries :
            createEntryIdentity(e) = createEntryIdentity(f) <=> e = f
       /\ {mapRowToEntry(r) : r \in dbRows} = entries

\* C30 as stated: a call that commits on a store object on which another call
\* has committed before (it had passed the cache check before that call
\* resolved) inserts nothing and returns 0, and leaves the rows as the first
\* call left them, for every cap and every legacy file.
C30_SecondCallInsertsNothing ==
  [][ \A c \in Calls :
        (MigrateCommits(c) /\ hist[mcall[c].store] = "migrated") =>
          /\ last'.ret = 0
          /\ dbRows' = dbRows
          /\ dbSeq' = dbSeq ]_vars


\* C31 as stated: whenever writeEntry raises an error, from its insert or from
\* the trim that follows, the stored rows are those of before the call (the
\* rows without the one this call has inserted).
C31_WriteAllOrNothing ==
  [][ (last'.op = "writeEntry" /\ last'.outcome = "error") =>
        dbRows' = IF writing[last'.store].active
                    THEN {r \in dbRows : r.id # writing[last'.store].rowId}
                    ELSE dbRows ]_vars


\* The row that the writeEntry call in progress on store s has inserted.
WrittenRow(s) == CHOOSE r \in dbRows : r.id = writing[s].rowId

NewerRows(r, rows) == {q \in rows : TextLess(r.created_at, q.created_at)}

\* C32: on a store with a cap of at least 1, a writeEntry call that returns
\* leaves the entry stored and first in readEntries(n), for every n of at
\* least 1, when no stored row has a greater created_at; it leaves the entry
\* deleted when at least cap stored rows have a greater created_at. The
\* readEntries call that follows returns the entry first.
C32_NewestSurvives ==
  [][ /\ \A s \in Stores :
           (/\ writing[s].active
            /\ last'.op = "writeEntry" /\ last'.store = s /\ last'.outcome = "ok"
            /\ store[s].cap >= 1) =>
             /\ NewerRows(WrittenRow(s), dbRows) = {} =>
                  /\ WrittenRow(s) \in dbRows'
                  /\ \A n \in 1..(MaxSeq + 1) :
                       readTopEntries(dbRows', 2 * n)[1] = WrittenRow(s)
             /\ Cardinality(NewerRows(WrittenRow(s), dbRows)) >= store[s].cap =>
                  WrittenRow(s) \notin dbRows'
      /\ (/\ last.op = "writeEntry" /\ last.outcome = "ok"
          /\ store[last.store].cap >= 1
          /\ last'.op = "readEntries" /\ last'.outcome = "ok" /\ last'.limit >= 2
          /\ \E r \in dbRows : r.id = dbSeq /\ NewerRows(r, dbRows) = {}) =>
            \E r \in dbRows : r.id = dbSeq /\ last'.read[1] = mapRowToEntry(r) ]_vars

\* readEntries has returned, first, the entry of the latest write although an
\* older row with the same created_at is stored too.
C32_Witness ==
  /\ last.op = "readEntries" /\ last.outcome = "ok" /\ Len(last.read) = 2
  /\ \E r \in dbRows : r.id = dbSeq /\ last.read[1] = mapRowToEntry(r)
  /\ last.read[1].createdAt = last.read[2].createdAt
  /\ store["s1"].cap >= 1


\* C33: after every step the stored rows have distinct ids, none above the
\* AUTOINCREMENT counter; a row that a step adds has an id above the counter
\* (above every id given out before, trimmed rows included) and the counter
\* never goes down; of two different stored rows exactly one ranks before the
\* other, and with equal created_at it is the one with the higher id; a
\* readEntries call returns rows of equal created_at in descending id order
\* and a step that deletes rows never deletes a row while keeping one with
\* the same created_at and a lower id.
C33_TiesByInsertionOrder ==
  [][ /\ \A r \in dbRows', q \in dbRows' :
           /\ r.id = q.id => r = q
           /\ r.id <= dbSeq'
           /\ r # q => (RankedBefore(r, q) <=> ~RankedBefore(q, r))
           /\ (r.created_at = q.created_at /\ r.id > q.id) => RankedBefore(r, q)
      /\ \A r \in dbRows' \ dbRows : r.id > dbSeq
      /\ dbSeq' >= dbSeq
      /\ (last'.op = "readEntries" /\ last'.outcome = "ok") =>
           /\ Len(last'.read) = Min(last'.limit \div 2, Stored)
           /\ \A i \in 1..Len(last'.read) :
                \E r \in dbRows :
                  /\ last'.read[i] = mapRowToEntry(r)
                  /\ RowRank(r, dbRows) = i
                  /\ \A q \in dbRows :
                       (q.created_at = r.created_at /\ q.id > r.id) =>
                         RowRank(q, dbRows) < i
      /\ \A q \in dbRows \ dbRows', r \in dbRows' :
           r.created_at = q.created_at => r.id > q.id ]_vars

\* A write on a store with cap 1 has returned, the second on this database,
\* and the row stored is the second one, its created_at being "1", the oldest
\* timestamp an entry can have: the first row, of the same created_at, has
\* been trimmed.
C33_Witness ==
  /\ last.op = "writeEntry" /\ last.outcome = "ok"
  /\ store["s1"].cap = 1
  /\ dbSeq = 2
  /\ \E r \in dbRows : dbRows = {r} /\ r.id = 2 /\ r.created_at = Txt(49)


\* C34: after every step, a store whose cachedMigrationComplete is true is on
\* a database whose persisted flag is complete; the cache goes from false to
\* true only in the constructor, on a database that holds the complete flag,
\* or in the step in which the store's own migration transaction commits.
C34_CacheSoundness ==
  [][ \A s \in Stores :
        /\ store'[s].cached => IsCompleteFlag(dbMeta')
        /\ (~store[s].cached /\ store'[s].cached) =>
             \/ /\ last'.op = "open" /\ last'.store = s /\ last'.outcome = "ok"
                /\ IsCompleteFlag(dbMeta)
             \/ \E c \in Calls :
                  /\ mcall[c].store = s
                  /\ MigrateCommits(c)
                  /\ IsCompleteFlag(dbMeta') ]_vars

\* A store constructed on a database that an earlier store object has migrated
\* has its cache set by the constructor.
C34_Witness ==
  /\ last.op = "open" /\ last.outcome = "ok"
  /\ store[last.store].cached
  /\ hist[last.store] = "openedAfter"
  /\ IsCompleteFlag(dbMeta)


\* C35 as stated: for every legacy entry the normalizer accepts, the identity
\* key of the row read back after inserting it equals the key of the entry,
\* and an entry of which a stored row is the inserted form is not among the
\* entries the migration is about to insert.
C35_IdentityRoundTrip ==
  [][ \A c \in Calls :
        (ReadsFile(c) /\ mcall'[c].pc = "txn") =>
          \A i \in 1..Len(mcall'[c].legacy) :
            LET parsed == parseLeaderboardPayloadEntry(mcall'[c].legacy[i], TRUE,
                                                       mcall'[c].now)
            IN parsed.ok =>
                 /\ createEntryIdentity(mapRowToEntry(insertEntry(parsed.entry, dbSeq + 1)))
                      = createEntryIdentity(parsed.entry)
                 /\ (\E r \in dbRows : r = insertEntry(parsed.entry, r.id)) =>
                      \A k \in 1..Len(mcall'[c].toInsert) :
                        mcall'[c].toInsert[k] # parsed.entry ]_vars


\* The body is larger than the limit, empty, or not JSON, or the value it
\* parses to lacks what the normalizer requires.
IsInvalidBody(body) ==
  \/ body.bytes > MAX_REQUEST_BODY_BYTES
  \/ body.blank
  \/ body.json = "invalid"
  \/ IsDeficient(body.payload)

\* C36: a POST whose body is empty, larger than the size limit, not valid
\* JSON, or rejected by the normalizer is answered 400, and no statement of
\* writeEntry runs: rows, id counter and flag are as before and no write is in
\* progress; the status 201 is sent only in the step in which writeEntry
\* returns, its insert and its trim having run without error.
C36_InvalidPostChangesNothing ==
  [][ /\ \A body \in PostBodies, now \in Clock, failed \in BOOLEAN :
           (/\ last'.op \in {"post", "writeEntry"}
            /\ IsInvalidBody(body)
            /\ ServerPostRequest(body, now, failed)) =>
             /\ server'.status = 400
             /\ last'.op = "post" /\ last'.outcome = "error"
             /\ DbUnchanged
             /\ ~writing'["s1"].active
      /\ (/\ last'.op \in {"post", "writeEntry"}
          /\ last'.outcome # "pending"
          /\ server'.status = 201) =>
            /\ last'.op = "writeEntry" /\ last'.outcome = "ok" /\ last'.path = "trim"
            /\ writing["s1"].active /\ ~writing'["s1"].active
            /\ \E r \in dbRows : r.id = writing["s1"].rowId ]_vars

\* A body one byte over the limit, holding a complete payload, has been
\* answered 400 on a server that had answered 201 before: the table has the
\* one row of the earlier POST.
C36_Witness ==
  /\ last.op = "post" /\ last.outcome = "error" /\ last.error = "size"
  /\ server.status = 400
  /\ Stored = 1 /\ dbSeq = 1


\* The value is a string whose first character after leading whitespace is a
\* digit from 1 to 9.
StartsWithPositiveDigit(v) ==
  v.t = "string" /\ TrimStart(v.s) # <<>> /\ Head(TrimStart(v.s)) \in 49..57

TrimRuns(s) ==
  \/ writing[s].active /\ last'.op = "writeEntry" /\ last'.store = s /\ last'.outcome = "ok"
  \/ \E c \in Calls : mcall[c].store = s /\ MigrateCommits(c)

\* C38: a trim that runs on a table of at most cap rows (the transaction has
\* no entry to insert, or the one row of writeEntry is in) deletes nothing; a
\* migration commit that follows another one on the same store, with nothing
\* to insert, leaves the table as the first left it; and for the table that
\* a step has changed, trimming it with one cap and then with another gives what one
\* trim with the smaller cap gives, and trimming twice with the same cap what
\* one trim gives.
C38_TrimIdempotentMinimal ==
  [][ /\ \A s \in Stores :
           (TrimRuns(s) /\ Stored <= store[s].cap
              /\ \A c \in Calls : mcall[c].toInsert = <<>>) =>
             dbRows' = dbRows
      /\ \A c \in Calls :
           (/\ MigrateCommits(c) /\ mcall[c].toInsert = <<>>
            /\ last.op = "migrate" /\ last.path = "imported" /\ last.outcome = "ok"
            /\ last.store = mcall[c].store) =>
             dbRows' = dbRows
      /\ dbRows' # dbRows =>
           \A c1 \in RaceCaps, c2 \in RaceCaps :
             /\ trimEntries(trimEntries(dbRows', c1), c2) = trimEntries(dbRows', Min(c1, c2))
             /\ trimEntries(trimEntries(dbRows', c1), c1) = trimEntries(dbRows', c1)
             /\ Cardinality(dbRows') <= c1 => trimEntries(dbRows', c1) = dbRows' ]_vars

\* Two rows have been written and one is stored; the store, with cap 1, has
\* committed a migration after an earlier one of its own: the trim has run
\* again on the table the earlier trim had left.
C38_Witness ==
  /\ last.op = "migrate" /\ last.path = "imported" /\ last.outcome = "ok"
  /\ last.after = "migrated"
  /\ store["s1"].cap = 1
  /\ dbSeq = 2 /\ Stored = 1


\* C39 as stated: once close() has returned on a store, every readEntries,
\* writeEntry and migrateFromLegacyJson call that ends on it ends in an error,
\* and the database content is as before.
C39_ClosedStoreUnusable ==
  [][ \A s \in Stores :
        (/\ store[s].status = "closed"
         /\ last'.store = s
         /\ last'.op \in {"readEntries", "writeEntry", "migrate"}
         /\ last'.outcome # "pending") =>
          /\ last'.outcome = "error"
          /\ DbUnchanged ]_vars

====
